---- MODULE Spec2Model ----
(***************************************************************************)
(* A model of gorefactor's symbol index and span mutators.                 *)
(*                                                                         *)
(* Source text is a sequence of lexical units ("bytes" of the model): one  *)
(* element per keyword, identifier, literal, bracket, comment or white     *)
(* space character.  Offsets count these units, so the splices of the      *)
(* mutators are unit-exact the way the code's are byte-exact.  Names are   *)
(* sequences of characters, so that matching (case folding, substring,     *)
(* the "Receiver.Method" form) is computed and not assumed.                *)
(***************************************************************************)
EXTENDS Integers, Sequences, FiniteSets, TLC

-----------------------------------------------------------------------------
(* Bounds of the model *)

\* longest candidate / query drawn for the name matcher
MaxNameLen == 3
\* operations performed in one behaviour
MaxSteps == 2

-----------------------------------------------------------------------------
(* Characters and names *)

\* strings.ToLower on one character
LowerChar(c) ==
  CASE c = "A" -> "a"
    [] c = "B" -> "b"
    [] c = "T" -> "t"
    [] OTHER -> c

\* strings.ToLower
ToLower(s) == [i \in 1..Len(s) |-> LowerChar(s[i])]

\* strings.EqualFold: same length, characters equal under simple case folding
EqualFold(s, t) ==
  /\ Len(s) = Len(t)
  /\ \A i \in 1..Len(s) : LowerChar(s[i]) = LowerChar(t[i])

\* strings.Contains
Contains(s, sub) ==
  \E i \in 0..(Len(s) - Len(sub)) : SubSeq(s, i + 1, i + Len(sub)) = sub

\* a mutant of matchName: the comparison forgets to fold case
matchNameCaseSensitive(fullName, query) ==
  Contains(fullName, query)

\* find.go matchName
matchName(fullName, query) ==
  IF fullName = query THEN TRUE
  ELSE IF EqualFold(fullName, query) THEN TRUE
  ELSE IF Contains(ToLower(fullName), ToLower(query)) THEN TRUE
  ELSE FALSE

\* the spelling of each identifier the model's sources use
NameChars(id) ==
  CASE id = "a"  -> <<"a">>
    [] id = "A"  -> <<"A">>
    [] id = "b"  -> <<"b">>
    [] id = "ab" -> <<"a", "b">>
    [] id = "T"  -> <<"T">>
    [] id = "p"  -> <<"p">>
    [] id = "q"  -> <<"q">>

Idents == {"a", "A", "b", "ab", "T", "p", "q"}

-----------------------------------------------------------------------------
(* Lexical units *)

Keywords  == {"func", "type", "var", "const"}
Comment   == "/*c*/"
Stmts     == {"s0", "s1"}
Lits      == {"v0", "v1"}
\* white space the scanner skips inside a line
InlineWs  == {" ", "\r"}
\* line breaks the delete operations consume after a span
LineBreaks == {"\n", "\r"}
\* units the formatter is free to change
FormatWs  == {" ", "\r", "\n", ";"}

-----------------------------------------------------------------------------
(* go/parser, restricted to the declarations the tool works on.            *)
(* Indices are 1-based positions in the text; the offsets stored in the    *)
(* records are Go's: Pos is the 0-based offset of the first unit, End the  *)
(* offset one past the last.                                               *)

At(s, i) == IF i >= 1 /\ i <= Len(s) THEN s[i] ELSE "EOF"

RECURSIVE SkipInline(_, _)
\* scanner: skip blanks, carriage returns and comments that stay on the line
SkipInline(s, i) ==
  IF At(s, i) \in InlineWs \cup {Comment} THEN SkipInline(s, i + 1) ELSE i

RECURSIVE SkipAll(_, _)
\* scanner: skip white space, line breaks and comments
SkipAll(s, i) ==
  IF At(s, i) \in InlineWs \cup {Comment, "\n"} THEN SkipAll(s, i + 1) ELSE i

\* the units that end a declaration or a spec (automatic semicolon at a line
\* break, an explicit semicolon, the end of the text)
Terminators == {"\n", ";", "EOF"}

NoParse == [ok |-> FALSE, next |-> 0]

RECURSIVE BodyEnd(_, _)
\* the index of the "}" closing a function body, 0 if the body never closes
BodyEnd(s, i) ==
  IF At(s, i) = "}" THEN i
  ELSE IF At(s, i) \in InlineWs \cup {Comment, "\n", ";"} \cup Stmts
       THEN BodyEnd(s, i + 1)
  ELSE 0

\* parser.parseFuncDecl at the "func" keyword s[j]
ParseFunc(s, j) ==
  LET k1   == SkipInline(s, j + 1)
      hasR == At(s, k1) = "("
      k2   == SkipInline(s, k1 + 1)
      star == At(s, k2) = "*"
      k3   == IF star THEN SkipInline(s, k2 + 1) ELSE k2
      k4   == SkipInline(s, k3 + 1)
      n    == IF hasR THEN SkipInline(s, k4 + 1) ELSE k1
      b    == SkipInline(s, n + 1)
      c    == BodyEnd(s, b + 1)
  IN IF hasR /\ ~(At(s, k3) \in Idents /\ At(s, k4) = ")") THEN NoParse
     ELSE IF ~(At(s, n) \in Idents /\ At(s, b) = "{" /\ c > 0) THEN NoParse
     ELSE [ok   |-> TRUE,
           next |-> c + 1,
           decl |-> [tok   |-> "func",
                     start |-> j - 1,
                     end   |-> c,
                     name  |-> NameChars(s[n]),
                     npos  |-> n - 1,
                     recv  |-> IF ~hasR THEN <<>>
                               ELSE IF star THEN <<"*">> \o NameChars(s[k3])
                               ELSE NameChars(s[k3]),
                     specs |-> <<>>]]

RECURSIVE ParseFields(_, _, _)
\* the field list of a struct type, from index i up to its closing brace
ParseFields(s, i, acc) ==
  LET k == SkipAll(s, i)
      t == SkipInline(s, k + 1)
      e == SkipInline(s, t + 1)
      f == [name |-> NameChars(s[k]), pos |-> k - 1, end |-> t]
  IN IF At(s, k) = "}" THEN [ok |-> TRUE, next |-> k, fields |-> acc]
     ELSE IF ~(At(s, k) \in Idents /\ At(s, t) = "int") THEN NoParse
     ELSE IF At(s, e) = "}" THEN [ok |-> TRUE, next |-> e, fields |-> Append(acc, f)]
     ELSE IF At(s, e) \in {"\n", ";"} THEN ParseFields(s, e + 1, Append(acc, f))
     ELSE NoParse

\* parser.parseTypeSpec at the identifier s[k]
ParseTypeSpec(s, k) ==
  LET t  == SkipInline(s, k + 1)
      b  == SkipInline(s, t + 1)
      fl == ParseFields(s, b + 1, <<>>)
      c  == SkipAll(s, b + 1)
      mk(kind, fields, last) ==
        [ok   |-> TRUE,
         next |-> last + 1,
         spec |-> [name |-> NameChars(s[k]), kind |-> kind, pos |-> k - 1,
                   end |-> last, fields |-> fields,
                   hasType |-> FALSE, hasValue |-> FALSE, value |-> ""]]
  IN IF At(s, k) \notin Idents THEN NoParse
     ELSE IF At(s, t) = "int" THEN mk("type", <<>>, t)
     ELSE IF At(s, t) = "struct" /\ At(s, b) = "{"
          THEN IF fl.ok THEN mk("struct", fl.fields, fl.next) ELSE NoParse
     ELSE IF At(s, t) = "interface" /\ At(s, b) = "{" /\ At(s, c) = "}"
          THEN mk("interface", <<>>, c)
     ELSE NoParse

\* parser.parseValueSpec at the identifier s[k]; idx is the spec's place in its
\* group (iota), which decides whether a constant may omit its value
ParseValueSpec(s, kw, k, idx) ==
  LET t      == SkipInline(s, k + 1)
      hasT   == At(s, t) = "int"
      t2     == IF hasT THEN SkipInline(s, t + 1) ELSE t
      hasV   == At(s, t2) = "="
      v      == SkipInline(s, t2 + 1)
      last   == IF hasV THEN v ELSE IF hasT THEN t ELSE k
      valid  == IF kw = "var" THEN hasT \/ hasV
                ELSE hasV \/ (idx > 0 /\ ~hasT)
  IN IF At(s, k) \notin Idents THEN NoParse
     ELSE IF hasV /\ At(s, v) \notin Lits THEN NoParse
     ELSE IF ~valid THEN NoParse
     ELSE [ok   |-> TRUE,
           next |-> last + 1,
           spec |-> [name |-> NameChars(s[k]), kind |-> kw, pos |-> k - 1,
                     end |-> last, fields |-> <<>>,
                     hasType |-> hasT, hasValue |-> hasV,
                     value |-> IF hasV THEN s[v] ELSE ""]]

ParseSpec(s, kw, k, idx) ==
  IF kw = "type" THEN ParseTypeSpec(s, k) ELSE ParseValueSpec(s, kw, k, idx)

RECURSIVE ParseSpecs(_, _, _, _)
\* one spec sp of a group parsed: what follows it decides how the group goes on
SpecsAfter(s, kw, acc, sp) ==
  LET e == SkipInline(s, sp.next)
  IN IF ~sp.ok THEN NoParse
     ELSE IF At(s, e) = ")" THEN [ok |-> TRUE, next |-> e, specs |-> Append(acc, sp.spec)]
     ELSE IF At(s, e) \in {"\n", ";"} THEN ParseSpecs(s, kw, e + 1, Append(acc, sp.spec))
     ELSE NoParse

\* the specs of a group from the token at index k
SpecsAt(s, kw, k, acc) ==
  IF At(s, k) = ")" THEN [ok |-> TRUE, next |-> k, specs |-> acc]
  ELSE SpecsAfter(s, kw, acc, ParseSpec(s, kw, k, Len(acc)))

\* the specs of a parenthesised group, from index i up to its ")"
ParseSpecs(s, kw, i, acc) == SpecsAt(s, kw, SkipAll(s, i), acc)

GenDecl(kw, j, specs, last) ==
  [ok   |-> TRUE,
   next |-> last + 1,
   decl |-> [tok |-> kw, start |-> j - 1, end |-> last,
             name |-> <<>>, npos |-> j - 1, recv |-> <<>>, specs |-> specs]]

\* a parenthesised declaration whose specs g are parsed
GroupDecl(kw, j, g) ==
  IF g.ok THEN GenDecl(kw, j, g.specs, g.next) ELSE NoParse

\* a declaration of one spec sp
SingleDecl(kw, j, sp) ==
  IF sp.ok THEN GenDecl(kw, j, <<sp.spec>>, sp.next - 1) ELSE NoParse

\* the declaration at keyword s[j], the token after it being s[k]
GenAt(s, j, k) ==
  IF At(s, k) = "("
  THEN GroupDecl(s[j], j, ParseSpecs(s, s[j], k + 1, <<>>))
  ELSE SingleDecl(s[j], j, ParseSpec(s, s[j], k, 0))

\* parser.parseGenDecl at the keyword s[j]
ParseGen(s, j) == GenAt(s, j, SkipInline(s, j + 1))

RECURSIVE ParseDecls(_, _, _)
\* one declaration r parsed: it must be terminated, and the list goes on
DeclsAfter(s, acc, r) ==
  LET e == SkipInline(s, r.next)
  IN IF ~r.ok THEN [ok |-> FALSE, decls |-> <<>>]
     ELSE IF At(s, e) \notin Terminators THEN [ok |-> FALSE, decls |-> <<>>]
     ELSE ParseDecls(s, e + 1, Append(acc, r.decl))

\* the declarations from the token at index k
DeclsAt(s, k, acc) ==
  IF At(s, k) = "EOF" THEN [ok |-> TRUE, decls |-> acc]
  ELSE IF At(s, k) \notin Keywords THEN [ok |-> FALSE, decls |-> <<>>]
  ELSE DeclsAfter(s, acc, IF At(s, k) = "func" THEN ParseFunc(s, k) ELSE ParseGen(s, k))

\* the declaration list of a file, from index i
ParseDecls(s, i, acc) == DeclsAt(s, SkipAll(s, i), acc)

NoFile == [ok |-> FALSE, pkg |-> "", decls |-> <<>>]

\* a file whose package clause names pkg and whose declarations d are parsed
FileOf(pkg, d) ==
  IF ~d.ok THEN NoFile ELSE [ok |-> TRUE, pkg |-> pkg, decls |-> d.decls]

\* the package clause "package" at index k, its name at n, its end at e
FileAt(s, k, n, e) ==
  IF ~(At(s, k) = "package" /\ At(s, n) \in Idents /\ At(s, e) \in Terminators)
  THEN NoFile
  ELSE FileOf(s[n], ParseDecls(s, e + 1, <<>>))

PackageAt(s, k, n) == FileAt(s, k, n, SkipInline(s, n + 1))

\* parser.ParseFile: the package clause, then the declarations
ParseFile(s) == PackageAt(s, SkipAll(s, 1), SkipInline(s, SkipAll(s, 1) + 1))

\* the package clause alone: "package" at index k, its name at n, its end at e
ClauseAt(s, k, n, e) ==
  IF At(s, k) = "package" /\ At(s, n) \in Idents /\ At(s, e) \in Terminators
  THEN [ok |-> TRUE, pkg |-> s[n]]
  ELSE [ok |-> FALSE, pkg |-> ""]

ClauseFrom(s, k, n) == ClauseAt(s, k, n, SkipInline(s, n + 1))

\* parser.ParseFile with parser.PackageClauseOnly: what follows the clause is
\* not looked at
PackageClause(s) == ClauseFrom(s, SkipAll(s, 1), SkipInline(s, SkipAll(s, 1) + 1))

VARIABLES
  fs,     \* the content of each file
  last,   \* the call just made: its arguments, what it read, computed and returned
  prev,   \* the call before it, when that call succeeded; NoCall otherwise
  steps,  \* calls made so far
  mt,     \* the name matcher's inputs and result
  env     \* the formatting tools of the machine the calls run on

vars == <<fs, last, prev, steps, mt, env>>

-----------------------------------------------------------------------------
(* go/format and go/printer *)

RECURSIVE SqueezeFrom(_, _, _)
\* the printer keeps at most one blank line: a third line break in a row is dropped
SqueezeFrom(s, i, acc) ==
  IF i > Len(s) THEN acc
  ELSE IF /\ s[i] = "\n"
          /\ Len(acc) >= 2
          /\ acc[Len(acc)] = "\n"
          /\ acc[Len(acc) - 1] = "\n"
       THEN SqueezeFrom(s, i + 1, acc)
  ELSE SqueezeFrom(s, i + 1, Append(acc, s[i]))

NotInlineWs(u) == u \notin InlineWs
NotComment(u)  == u # Comment
NotFormatWs(u) == u \notin FormatWs

\* the printer's layout of a run of units: blanks and carriage returns go,
\* a semicolon becomes a line break, blank lines are squeezed
Layout(s) ==
  LET t == SelectSeq(s, NotInlineWs)
      u == [i \in 1..Len(t) |-> IF t[i] = ";" THEN "\n" ELSE t[i]]
  IN SqueezeFrom(u, 1, <<>>)

RECURSIVE TrimLeft(_)
TrimLeft(s) == IF s # <<>> /\ Head(s) = "\n" THEN TrimLeft(Tail(s)) ELSE s

RECURSIVE TrimRight(_)
TrimRight(s) ==
  IF s # <<>> /\ s[Len(s)] = "\n" THEN TrimRight(SubSeq(s, 1, Len(s) - 1)) ELSE s

\* gofmt's output for a text that parses: the layout, no leading blank line,
\* exactly one line break at the end
Canon(s) == Append(TrimRight(TrimLeft(Layout(s))), "\n")

\* a text with everything the formatter may change taken out
Strip(s) == SelectSeq(s, NotFormatWs)

\* what the machine's tools do with a text format.Source rejects: an absent
\* tool, or one built from the same go/parser, fails on it; a tool of a newer
\* release may accept it (goimports, gofmt: the tool exits 0 on such a text)
Envs == [goimports : BOOLEAN, gofmt : BOOLEAN]

\* a mutant of formatSource: gofmt is run before goimports
formatSourceGofmtFirst(src) ==
  IF ParseFile(src).ok
  THEN [out |-> Canon(src), err |-> FALSE, by |-> "format.Source"]
  ELSE IF env.gofmt
  THEN [out |-> Canon(src), err |-> FALSE, by |-> "gofmt"]
  ELSE IF env.goimports
  THEN [out |-> Canon(src), err |-> FALSE, by |-> "goimports"]
  ELSE [out |-> src, err |-> TRUE, by |-> "unformatted"]

\* symbols.go formatSource: format.Source, then "goimports" on standard input,
\* then "gofmt" on standard input; the first that succeeds gives out, and by
\* names it.  When all fail, err is set and out is src itself.
formatSource(src) ==
  IF ParseFile(src).ok
  THEN [out |-> Canon(src), err |-> FALSE, by |-> "format.Source"]
  ELSE IF env.goimports
  THEN [out |-> Canon(src), err |-> FALSE, by |-> "goimports"]
  ELSE IF env.gofmt
  THEN [out |-> Canon(src), err |-> FALSE, by |-> "gofmt"]
  ELSE [out |-> src, err |-> TRUE, by |-> "unformatted"]

RECURSIVE BackInline(_, _)
BackInline(s, i) == IF At(s, i) \in InlineWs THEN BackInline(s, i - 1) ELSE i

RECURSIVE LineStart(_, _)
\* the first index of the run of blanks and comments that ends at index i
LineStart(s, i) ==
  IF At(s, i) \in InlineWs \cup {Comment} THEN LineStart(s, i - 1) ELSE i + 1

RECURSIVE DocStart(_, _)
\* parser.next's lead comment: the comment lines that end on the line just above
\* the line starting at index j, each holding nothing but comments.  The index of
\* the first of them; j when there is none.
DocStart(s, j) ==
  LET p == BackInline(s, j - 1)
      q == BackInline(s, p - 1)
      r == LineStart(s, q)
  IN IF /\ At(s, p) = "\n"
        /\ At(s, q) = Comment
        /\ At(s, r - 1) \in {"\n", "EOF"}
     THEN DocStart(s, r)
     ELSE j

\* the doc comment of the declaration whose keyword is at offset start, as the
\* printer writes it: each comment on a line of its own
DocOf(s, start) ==
  LET r  == DocStart(s, start + 1)
      cs == SelectSeq(SubSeq(s, r, start), LAMBDA u : u = Comment)
  IN IF r = start + 1 THEN <<>>
     ELSE [i \in 1..(2 * Len(cs)) |-> IF i % 2 = 1 THEN Comment ELSE "\n"]

\* symbols.go formatNode on a declaration d of the text s: printer.Fprint of the
\* bare node.  The node carries its doc comment; the comments inside a function
\* are in no node (they hang off the ast.File), so the printer does not see them.
formatNode(s, d) ==
  LET span == SubSeq(s, d.start + 1, d.end)
      body == IF d.tok = "func" THEN SelectSeq(span, NotComment) ELSE span
  IN DocOf(s, d.start) \o Layout(body)

-----------------------------------------------------------------------------
(* The file tree *)

\* the .go files of the project directory, in filepath.Walk's (lexical) order
Files == <<"a.go", "b.go", "ro.go">>

\* every path a tree of the model may hold, in filepath.Walk's order from the
\* project directory: the entries of a directory in lexical order, a
\* directory's content right after its name
TreeFiles ==
  <<".h/h.go", "a.go", "b.go", "lib/l.go", "m.go", "ro.go", "sub/s.go",
    "testdata/t.go", "vendor/v.go">>

\* filepath.Dir of each path, as the directory names below the project
\* directory
DirOf(file) ==
  CASE file = ".h/h.go"       -> <<".h">>
    [] file = "lib/l.go"      -> <<"lib">>
    [] file = "sub/s.go"      -> <<"sub">>
    [] file = "testdata/t.go" -> <<"testdata">>
    [] file = "vendor/v.go"   -> <<"vendor">>
    [] OTHER                  -> <<>>

\* the project directory, "."
Root == <<>>

\* strings.HasPrefix(base, ".") on the directory names of the model
HasDotPrefix(base) == base \in {".h"}
FileSet == {Files[i] : i \in 1..Len(Files)}
\* files whose permissions refuse os.WriteFile
ReadOnly == {"ro.go"}
\* a path no file has: os.ReadFile fails on it
Missing == "none.go"

Exists(F, file) == file \in DOMAIN F

\* the line of an offset: one more than the line breaks before it
RECURSIVE LineBreaksBefore(_, _)
LineBreaksBefore(s, n) ==
  IF n <= 0 THEN 0
  ELSE (IF At(s, n) = "\n" THEN 1 ELSE 0) + LineBreaksBefore(s, n - 1)

LineOf(s, offset) == 1 + LineBreaksBefore(s, offset)

-----------------------------------------------------------------------------
(* find.go: the index *)

RECURSIVE Flatten(_)
Flatten(ss) == IF ss = <<>> THEN <<>> ELSE Head(ss) \o Flatten(Tail(ss))

Qualified(owner, ident) == owner \o <<".">> \o ident

\* find.go searchSymbols: the test that admits a function or a field
indexAccepts(full, bare, query) ==
  matchName(full, query) \/ matchName(bare, query)

\* a mutant of Location: the two lines change places
LocationLinesSwapped(name, ident, kind, file, s, pos, end, receiver, parent) ==
  [Name |-> name, Ident |-> ident, Kind |-> kind, File |-> file,
   Offset |-> pos, Line |-> LineOf(s, end), EndLine |-> LineOf(s, pos),
   Receiver |-> receiver, Parent |-> parent]

\* one SymbolLocation: Line is the line of the name, EndLine the line of the
\* end of the declaration, spec or field
Location(name, ident, kind, file, s, pos, end, receiver, parent) ==
  [Name |-> name, Ident |-> ident, Kind |-> kind, File |-> file,
   Offset |-> pos, Line |-> LineOf(s, pos), EndLine |-> LineOf(s, end),
   Receiver |-> receiver, Parent |-> parent]

\* searchSymbols, the *ast.FuncDecl case
FuncRecords(d, file, s, name, kindFilter) ==
  LET funcName == IF d.recv # <<>> THEN Qualified(d.recv, d.name) ELSE d.name
  IN IF kindFilter # "" /\ kindFilter # "func" THEN <<>>
     ELSE IF indexAccepts(funcName, d.name, name)
          THEN <<Location(funcName, d.name, "func", file, s, d.npos, d.end, d.recv, <<>>)>>
     ELSE <<>>

\* searchSymbols, the struct fields of a type spec
FieldRecords(sp, file, s, name) ==
  Flatten([i \in 1..Len(sp.fields) |->
    LET f == sp.fields[i]
        fullFieldName == Qualified(sp.name, f.name)
    IN IF indexAccepts(fullFieldName, f.name, name)
       THEN <<Location(fullFieldName, f.name, "field", file, s, f.pos, f.end, <<>>, sp.name)>>
       ELSE <<>>])

\* a mutant of TypeRecords: the fields of a struct are listed before the struct
TypeRecordsFieldsFirst(sp, file, s, name, kindFilter) ==
  IF kindFilter # "" /\ kindFilter # "type" /\ kindFilter # "field" THEN <<>>
  ELSE (IF sp.kind = "struct" THEN FieldRecords(sp, file, s, name) ELSE <<>>)
       \o (IF kindFilter # "field" /\ matchName(sp.name, name)
           THEN <<Location(sp.name, sp.name, sp.kind, file, s, sp.pos, sp.end, <<>>, <<>>)>>
           ELSE <<>>)

\* searchSymbols, the *ast.TypeSpec case
TypeRecords(sp, file, s, name, kindFilter) ==
  IF kindFilter # "" /\ kindFilter # "type" /\ kindFilter # "field" THEN <<>>
  ELSE (IF kindFilter # "field" /\ matchName(sp.name, name)
        THEN <<Location(sp.name, sp.name, sp.kind, file, s, sp.pos, sp.end, <<>>, <<>>)>>
        ELSE <<>>)
       \o (IF sp.kind = "struct" THEN FieldRecords(sp, file, s, name) ELSE <<>>)

\* searchSymbols, the *ast.ValueSpec case
ValueRecords(sp, file, s, name, kindFilter) ==
  IF kindFilter # "" /\ kindFilter # sp.kind THEN <<>>
  ELSE IF matchName(sp.name, name)
       THEN <<Location(sp.name, sp.name, sp.kind, file, s, sp.pos, sp.end, <<>>, <<>>)>>
  ELSE <<>>

DeclRecords(d, file, s, name, kindFilter) ==
  IF d.tok = "func" THEN FuncRecords(d, file, s, name, kindFilter)
  ELSE Flatten([i \in 1..Len(d.specs) |->
         IF d.tok = "type"
         THEN TypeRecords(d.specs[i], file, s, name, kindFilter)
         ELSE ValueRecords(d.specs[i], file, s, name, kindFilter)])

\* a mutant of ParsedRecords: the last declaration of a file is not indexed
ParsedRecordsButLast(p, file, s, name, kindFilter) ==
  IF ~p.ok THEN <<>>
  ELSE Flatten([i \in 1..(Len(p.decls) - 1) |->
         DeclRecords(p.decls[i], file, s, name, kindFilter)])

\* the records of a file whose text s parsed as p: none when it did not parse
ParsedRecords(p, file, s, name, kindFilter) ==
  IF ~p.ok THEN <<>>
  ELSE Flatten([i \in 1..Len(p.decls) |->
         DeclRecords(p.decls[i], file, s, name, kindFilter)])

\* searchSymbols, one file of the walk
FileRecords(F, file, name, kindFilter) ==
  ParsedRecords(ParseFile(F[file]), file, F[file], name, kindFilter)

\* the test of the walk function on a directory other than the one walked:
\* filepath.SkipDir for a name starting with a dot and for "vendor"
SkipDir(base) == HasDotPrefix(base) \/ base = "vendor"

\* file lies in the directory dir or below it
Under(dir, file) ==
  /\ Len(dir) <= Len(DirOf(file))
  /\ SubSeq(DirOf(file), 1, Len(dir)) = dir

\* the walk from dir reaches file: no directory on the way down from dir to
\* the file is skipped (dir itself is never tested)
Reached(F, dir, file) ==
  /\ Exists(F, file)
  /\ Under(dir, file)
  /\ \A i \in (Len(dir) + 1)..Len(DirOf(file)) : ~SkipDir(DirOf(file)[i])

\* filepath.Walk(absDir, ...): the files parsed, in the order they are met
Walk(F, dir) == SelectSeq(TreeFiles, LAMBDA file : Reached(F, dir, file))

\* a mutant of WalkRecords: the walk ends at the first file that does not parse
WalkRecordsAborted(F, files, name, kindFilter) ==
  Flatten([i \in 1..Len(files) |->
             IF \E j \in 1..i : ~ParseFile(F[files[j]]).ok THEN <<>>
             ELSE FileRecords(F, files[i], name, kindFilter)])

\* the records of the files met, in order
WalkRecords(F, files, name, kindFilter) ==
  Flatten([i \in 1..Len(files) |-> FileRecords(F, files[i], name, kindFilter)])

\* find.go searchSymbols(name, dir, kindFilter)
searchSymbolsIn(F, dir, name, kindFilter) ==
  WalkRecords(F, Walk(F, dir), name, kindFilter)

\* find.go searchSymbols over the project directory, "."
searchSymbols(F, name, kindFilter) ==
  searchSymbolsIn(F, Root, name, kindFilter)

Min(S) == CHOOSE x \in S : \A y \in S : x <= y
Max(S) == CHOOSE x \in S : \A y \in S : x >= y

RECURSIVE FirstExact(_, _, _)
\* the loop "for _, m := range matches { if m.Name == name { return &m } }":
\* the index of the first record named exactly name, 0 when the loop falls through
FirstExact(matches, name, i) ==
  IF i > Len(matches) THEN 0
  ELSE IF matches[i].Name = name THEN i
  ELSE FirstExact(matches, name, i + 1)

\* a mutant of Resolve: the first candidate wins, exact or not
ResolveFirst(matches, name) ==
  IF Len(matches) = 0 THEN <<>> ELSE <<matches[1]>>

\* find.go locateSymbol / locateFunc / locateType after the search: no record
\* (nil) as the empty sequence, a record as a sequence of one
Resolve(matches, name) ==
  LET e == FirstExact(matches, name, 1)
  IN IF Len(matches) = 0 THEN <<>>
     ELSE IF e > 0 THEN <<matches[e]>>
     ELSE <<matches[1]>>

locateSymbol(F, name) == Resolve(searchSymbols(F, name, ""), name)
locateFunc(F, name)   == Resolve(searchSymbols(F, name, "func"), name)
locateType(F, name)   == Resolve(searchSymbols(F, name, "type"), name)

IsVarConst(m) == m.Kind \in {"var", "const"}

IsNamed(m, name) == m.Name = name

\* the two loops of locateVarConst over the var/const records vc
FirstVarConst(vc, name) ==
  IF \E i \in 1..Len(vc) : IsNamed(vc[i], name)
  THEN <<vc[Min({i \in 1..Len(vc) : IsNamed(vc[i], name)})]>>
  ELSE IF vc # <<>> THEN <<vc[1]>>
  ELSE <<>>

\* locateVarConst: the first var/const named exactly name, else the first var/const
locateVarConst(F, name) ==
  FirstVarConst(SelectSeq(searchSymbols(F, name, ""), IsVarConst), name)

\* the locator each mutator variant calls when it is given no file
Locate(kind, F, name) ==
  CASE kind = "func"     -> locateFunc(F, name)
    [] kind = "type"     -> locateType(F, name)
    [] kind = "varconst" -> locateVarConst(F, name)
    [] kind = "symbol"   -> locateSymbol(F, name)

-----------------------------------------------------------------------------
(* The span mutators *)

\* a mutant of matchFunc: the index's fuzzy matcher decides
matchFuncFuzzy(fn, name) ==
  matchName(fn.name, name)

\* matchFunc: the bare name, Receiver.Name, or Receiver.Name without the star
matchFunc(fn, name) ==
  IF fn.name = name THEN TRUE
  ELSE IF fn.recv # <<>>
       THEN \/ Qualified(fn.recv, fn.name) = name
            \/ Head(fn.recv) = "*" /\ Qualified(Tail(fn.recv), fn.name) = name
  ELSE FALSE

\* the test of the per-kind loops: does declaration d declare name?
Declares(kind, d, name) ==
  CASE kind = "func"     -> d.tok = "func" /\ matchFunc(d, name)
    [] kind = "type"     -> /\ d.tok = "type"
                            /\ \E i \in 1..Len(d.specs) : d.specs[i].name = name
    [] kind = "varconst" -> /\ d.tok \in {"var", "const"}
                            /\ \E i \in 1..Len(d.specs) : d.specs[i].name = name

Declaring(kind, decls, name) ==
  {i \in 1..Len(decls) : Declares(kind, decls[i], name)}

\* the declaration a read returns: every read loop returns at its first hit
ReadTarget(kind, decls, name) ==
  IF Declaring(kind, decls, name) = {} THEN 0
  ELSE Min(Declaring(kind, decls, name))

\* the declaration a replace or delete works on: the function loop breaks at
\* its first hit; the type and var/const loops break only out of the spec loop,
\* so the last declaring declaration is the one left in targetDecl
WriteTarget(kind, decls, name) ==
  IF Declaring(kind, decls, name) = {} THEN 0
  ELSE IF kind = "func" THEN Min(Declaring(kind, decls, name))
  ELSE Max(Declaring(kind, decls, name))

\* what one call did: its result, and the values it computed on the way
Outcome(ok, err, file, src, start, end, buf, code, trace, out) ==
  [ok |-> ok, err |-> err, File |-> file, src |-> src, start |-> start,
   end |-> end, buf |-> buf, code |-> code, trace |-> trace, out |-> out]

Failure(err, file, F) == Outcome(FALSE, err, file, <<>>, 0, 0, <<>>, <<>>, <<>>, F)

\* the file of the located record loc, when there is one
LocatedFile(loc) ==
  IF loc = <<>> THEN <<>> ELSE <<loc[1].File>>

\* the "if file == \"\"" prologue of every variant: the file to work on, as a
\* sequence of one, or nothing when the locator finds no record
ResolveFile(kind, F, name, file) ==
  IF file # "" THEN <<file>> ELSE LocatedFile(Locate(kind, F, name))

\* os.WriteFile
WriteFile(F, file, data) ==
  IF file \in ReadOnly \/ file = Missing THEN [ok |-> FALSE, out |-> F]
  ELSE [ok |-> TRUE, out |-> [F EXCEPT ![file] = data]]

\* the result of a read whose loop stopped at declaration t (0: at none)
ReadFound(F, file, src, decls, t) ==
  IF t = 0 THEN Failure("notfound", file, F)
  ELSE Outcome(TRUE, "", file, src, decls[t].start, decls[t].end, <<>>,
               formatNode(src, decls[t]), <<>>, F)

\* a read after the file's text src parsed as f
ReadParsed(kind, F, name, file, src, f) ==
  IF ~f.ok THEN Failure("parse", file, F)
  ELSE ReadFound(F, file, src, f.decls, ReadTarget(kind, f.decls, name))

\* a read in the file the prologue settled on (rf: that file, if any)
ReadIn(kind, F, name, rf) ==
  IF rf = <<>> THEN Failure("notfound", "", F)
  ELSE IF ~Exists(F, rf[1]) THEN Failure("io", rf[1], F)
  ELSE ReadParsed(kind, F, name, rf[1], F[rf[1]], ParseFile(F[rf[1]]))

\* ReadFunc / ReadType / ReadVarConst
ReadDecl(kind, F, name, fileArg) ==
  ReadIn(kind, F, name, ResolveFile(kind, F, name, fileArg))

RECURSIVE SkipLineBreaks(_, _)
\* "for endPos < len(src) && (src[endPos] == '\n' || src[endPos] == '\r')"
SkipLineBreaks(src, endPos) ==
  IF endPos < Len(src) /\ src[endPos + 1] \in LineBreaks
  THEN SkipLineBreaks(src, endPos + 1)
  ELSE endPos

\* a mutant of Splice: the span's last unit survives
SpliceShort(src, start, end, text) ==
  SubSeq(src, 1, start) \o text \o SubSeq(src, end, Len(src))

\* a mutant of Splice: the tail is taken from the span's start, so the old
\* span stays
SpliceFromStart(src, start, end, text) ==
  SubSeq(src, 1, start) \o text \o SubSeq(src, start + 1, Len(src))

\* "result = append(src[:startPos], text, src[endPos:])"
Splice(src, start, end, text) ==
  SubSeq(src, 1, start) \o text \o SubSeq(src, end + 1, Len(src))

\* a mutant of DeleteEnd: the loop goes one unit beyond the end of the file
DeleteEndPastFile(src, endPos) ==
  IF SkipLineBreaks(src, endPos) = Len(src) THEN Len(src) + 1
  ELSE SkipLineBreaks(src, endPos)

\* a mutant of DeleteEnd: the line breaks after the span stay
DeleteEndAtSpan(src, endPos) ==
  endPos

\* the end of the range a delete removes
DeleteEnd(src, endPos) ==
  SkipLineBreaks(src, endPos)

\* one step of an operation: what it worked on and the tree it left
Step(step, file, start, end, F) ==
  [step |-> step, file |-> file, start |-> start, end |-> end, fs |-> F]

\* the bytes written: the formatter's output, or the buffer when it fails
Formatted(buf, fmt) == IF fmt.err THEN buf ELSE fmt.out

\* a mutant of Written: the result of a write that went well names no file
WrittenWithoutFile(F, file, src, start, end, buf, by, w) ==
  IF ~w.ok THEN Outcome(FALSE, "io", file, src, start, end, buf, <<>>, <<>>, F)
  ELSE Outcome(TRUE, "", "", src, start, end, buf, <<>>,
               <<Step(by, file, start, end, w.out)>>, w.out)

\* the end of a mutation: the buffer, formatted by the formatter named by,
\* was written (w) or the write failed
Written(F, file, src, start, end, buf, by, w) ==
  IF ~w.ok THEN Outcome(FALSE, "io", file, src, start, end, buf, <<>>, <<>>, F)
  ELSE Outcome(TRUE, "", file, src, start, end, buf, <<>>,
               <<Step(by, file, start, end, w.out)>>, w.out)

\* write what the formatter returned (fmt), or the buffer when it failed
WriteFormatted(F, file, src, start, end, buf, fmt) ==
  Written(F, file, src, start, end, buf, fmt.by,
          WriteFile(F, file, Formatted(buf, fmt)))

\* format the spliced buffer and write it back
FormatAndWrite(F, file, src, start, end, buf) ==
  WriteFormatted(F, file, src, start, end, buf, formatSource(buf))

\* splice at the span [start, end) of the target
SpliceAndWrite(F, file, src, start, end, text) ==
  FormatAndWrite(F, file, src, start, end, Splice(src, start, end, text))

\* a mutant of TargetSpan: the span of a group's first spec, not of the group
TargetSpanOfSpec(d) ==
  IF d.tok = "func" THEN [start |-> d.start, end |-> d.end]
  ELSE [start |-> d.specs[1].pos, end |-> d.specs[1].end]

\* startPos and endPos of the mutators: targetDecl.Pos() and targetDecl.End(),
\* where targetDecl is the whole declaration (for a group: keyword to ")")
TargetSpan(d) ==
  [start |-> d.start, end |-> d.end]

\* the splice of a mutation over the span of its target declaration
MutateSpan(op, F, file, src, span, text) ==
  IF op = "delete"
  THEN SpliceAndWrite(F, file, src, span.start, DeleteEnd(src, span.end), <<>>)
  ELSE SpliceAndWrite(F, file, src, span.start, span.end, text)

\* a mutation whose loop left declaration t in targetDecl (0: nil)
MutateFound(op, F, file, src, decls, t, text) ==
  IF t = 0 THEN Failure("notfound", file, F)
  ELSE MutateSpan(op, F, file, src, TargetSpan(decls[t]), text)

\* a mutation after the file's text src parsed as f
MutateParsed(op, kind, F, name, file, src, f, text) ==
  IF ~f.ok THEN Failure("parse", file, F)
  ELSE MutateFound(op, F, file, src, f.decls, WriteTarget(kind, f.decls, name), text)

\* a mutation in the file the prologue settled on (rf: that file, if any)
MutateIn(op, kind, F, name, rf, text) ==
  IF rf = <<>> THEN Failure("notfound", "", F)
  ELSE IF ~Exists(F, rf[1]) THEN Failure("io", rf[1], F)
  ELSE MutateParsed(op, kind, F, name, rf[1], F[rf[1]], ParseFile(F[rf[1]]), text)

\* ReplaceFunc / ReplaceType / ReplaceVarConst (op = "replace") and
\* DeleteFunc / DeleteType / DeleteVarConst (op = "delete")
Mutate(op, kind, F, name, fileArg, text) ==
  MutateIn(op, kind, F, name, ResolveFile(kind, F, name, fileArg), text)

\* a mutant of AddText: the text is put in front of the old content
AddTextInFront(src, code) ==
  code \o <<"\n", "\n">> \o src \o <<"\n">>

\* "result = append(src, '\n', '\n', newCodeBytes, '\n')"
AddText(src, code) ==
  src \o <<"\n", "\n">> \o code \o <<"\n">>

\* AddFunc: no name is looked up and nothing is parsed before the append
AddFunc(F, file, text) ==
  IF ~Exists(F, file) THEN Failure("io", file, F)
  ELSE FormatAndWrite(F, file, F[file], Len(F[file]), Len(F[file]),
                      AddText(F[file], text))

\* "goimports -w file": nothing happens when the tool is not installed, when
\* it rejects the file or when the file cannot be written; its exit status is
\* ignored by the caller
GoimportsW(F, file, installed) ==
  IF ~installed \/ ~Exists(F, file) THEN F
  ELSE IF ~ParseFile(F[file]).ok /\ ~env.goimports THEN F
  ELSE WriteFile(F, file, Canon(F[file])).out

\* a mutant of AppendText: no blank line between the old content and the text
AppendTextNoGap(dstSrc, code) ==
  dstSrc \o code \o <<"\n">>

\* "newDst = append(dstSrc, '\n', '\n', code, '\n')"
AppendText(dstSrc, code) ==
  dstSrc \o <<"\n", "\n">> \o code \o <<"\n">>

ReadStep(srcFile, r, F) == Step("read", srcFile, r.start, r.end, F)

DeleteStep(srcFile, d) == Step("delete", srcFile, d.start, d.end, d.out)

\* the successful end of a move: both goimports runs are over (g1: after the
\* one on dst, g2: after the one on src)
MoveDone(F, dstFile, srcFile, r, d, newDst, w, g1, g2) ==
  Outcome(TRUE, "", dstFile, d.src, d.start, d.end, newDst, r.code,
          <<ReadStep(srcFile, r, F), DeleteStep(srcFile, d),
            Step("append", dstFile, 0, 0, w.out),
            Step("goimports", dstFile, 0, 0, g1),
            Step("goimports", srcFile, 0, 0, g2)>>,
          g2)

\* "goimports -w dstFile" has left g1; "goimports -w srcFile" follows
MoveFormatSrc(F, dstFile, srcFile, installed, r, d, newDst, w, g1) ==
  MoveDone(F, dstFile, srcFile, r, d, newDst, w, g1,
           GoimportsW(g1, srcFile, installed))

\* a mutant of MoveDstFailed: the source file is put back
MoveDstFailedRestored(F, srcFile, r, d, newDst) ==
  Outcome(FALSE, "io", srcFile, d.src, d.start, d.end, newDst, r.code,
          <<ReadStep(srcFile, r, F), DeleteStep(srcFile, d)>>, F)

\* the destination could not be read or written: the error is returned, the
\* files stay as the delete left them
MoveDstFailed(F, srcFile, r, d, newDst) ==
  Outcome(FALSE, "io", srcFile, d.src, d.start, d.end, newDst, r.code,
          <<ReadStep(srcFile, r, F), DeleteStep(srcFile, d)>>, d.out)

\* the write of the destination returned w
MoveWritten(F, dstFile, srcFile, installed, r, d, newDst, w) ==
  IF ~w.ok THEN MoveDstFailed(F, srcFile, r, d, newDst)
  ELSE MoveFormatSrc(F, dstFile, srcFile, installed, r, d, newDst, w,
                     GoimportsW(w.out, dstFile, installed))

\* the destination was read: append and write
MoveAppend(F, dstFile, srcFile, installed, r, d, newDst) ==
  MoveWritten(F, dstFile, srcFile, installed, r, d, newDst,
              WriteFile(d.out, dstFile, newDst))

\* the delete step returned d
MoveDeleted(F, dstFile, srcFile, installed, r, d) ==
  IF ~d.ok
  THEN Outcome(FALSE, d.err, srcFile, <<>>, 0, 0, <<>>, r.code,
               <<ReadStep(srcFile, r, F)>>, F)
  ELSE IF ~Exists(d.out, dstFile) THEN MoveDstFailed(F, srcFile, r, d, <<>>)
  ELSE MoveAppend(F, dstFile, srcFile, installed, r, d,
                  AppendText(d.out[dstFile], r.code))

\* the read step returned r
MoveRead(kind, F, name, dstFile, srcFile, installed, r) ==
  IF ~r.ok THEN Failure(r.err, srcFile, F)
  ELSE MoveDeleted(F, dstFile, srcFile, installed, r,
                   Mutate("delete", kind, F, name, srcFile, <<>>))

\* a move out of the file the prologue settled on (rf: that file, if any)
MoveFrom(kind, F, name, dstFile, installed, rf) ==
  IF rf = <<>> THEN Failure("notfound", "", F)
  ELSE MoveRead(kind, F, name, dstFile, rf[1], installed,
                ReadDecl(kind, F, name, rf[1]))

\* MoveFunc / MoveType / MoveVarConst
MoveDecl(kind, F, name, dstFile, srcArg, installed) ==
  MoveFrom(kind, F, name, dstFile, installed,
           ResolveFile(kind, F, name, srcArg))

-----------------------------------------------------------------------------
(* The generic operations: the kind of the resolved record picks the variant *)

\* a mutant of Variant: a field is handled as the type that holds it
VariantFieldAsType(kind) ==
  CASE kind = "func"                          -> "func"
    [] kind \in {"struct", "interface", "type"} -> "type"
    [] kind \in {"var", "const"}              -> "varconst"
    [] OTHER                                  -> "type"

\* "switch loc.Kind": the mutator variant of a record kind, "" for the default
\* branch
Variant(kind) ==
  CASE kind = "func"                          -> "func"
    [] kind \in {"struct", "interface", "type"} -> "type"
    [] kind \in {"var", "const"}              -> "varconst"
    [] OTHER                                  -> ""

\* the branch taken for a variant
Routed(op, variant, F, name, file, text) ==
  IF variant = "" THEN Failure("unsupported", "", F)
  ELSE Mutate(op, variant, F, name, file, text)

\* Replace and Delete once locateSymbol has returned loc
Dispatch(op, F, name, file, text, loc) ==
  IF loc = <<>> THEN Failure("notfound", "", F)
  ELSE Routed(op, Variant(loc[1].Kind), F, name,
              IF file = "" THEN loc[1].File ELSE file, text)

\* Replace(name, file, newCode)
Replace(F, name, file, text) ==
  Dispatch("replace", F, name, file, text, locateSymbol(F, name))

\* Delete(name, file)
Delete(F, name, file) ==
  Dispatch("delete", F, name, file, <<>>, locateSymbol(F, name))

\* getPackageName: the name in the package clause of a file
getPackageName(F, file) ==
  IF ~Exists(F, file) THEN [ok |-> FALSE, pkg |-> ""]
  ELSE PackageClause(F[file])

\* the records of matches whose file declares the package name dstPkg
InPackage(F, matches, dstPkg) ==
  {i \in 1..Len(matches) : getPackageName(F, matches[i].File).pkg = dstPkg}

\* the two loops of Move over the records same of the destination's package
\* name: the first named exactly name, else the first
PickFrom(matches, name, same) ==
  IF \E i \in same : matches[i].Name = name
  THEN <<matches[Min({i \in same : matches[i].Name = name})]>>
  ELSE IF same # {} THEN <<matches[Min(same)]>>
  ELSE <<>>

\* the branch of Move taken for a variant
MoveRouted(variant, F, name, dstFile, srcFile, installed) ==
  IF variant = "" THEN Failure("unsupported", "", F)
  ELSE MoveDecl(variant, F, name, dstFile, srcFile, installed)

\* Move once the source record loc is picked
MoveLocated(F, name, dstFile, installed, loc) ==
  IF loc = <<>> THEN Failure("notfound", "", F)
  ELSE IF loc[1].File = dstFile THEN Failure("same", dstFile, F)
  ELSE MoveRouted(Variant(loc[1].Kind), F, name, dstFile, loc[1].File, installed)

\* Move once the index of the destination's directory has returned matches
MoveAmong(F, name, dstFile, installed, dstPkg, matches) ==
  MoveLocated(F, name, dstFile, installed,
              PickFrom(matches, name, InPackage(F, matches, dstPkg)))

\* Move once the destination's package clause is read (pc)
MoveInPackage(F, name, dstFile, installed, pc) ==
  IF ~pc.ok THEN Failure("package", dstFile, F)
  ELSE MoveAmong(F, name, dstFile, installed, pc.pkg,
                 searchSymbolsIn(F, DirOf(dstFile), name, ""))

\* Move(name, dstFile)
Move(F, name, dstFile, installed) ==
  MoveInPackage(F, name, dstFile, installed, getPackageName(F, dstFile))

-----------------------------------------------------------------------------
(* The tree the calls run on, and the arguments they are given *)

InitFs ==
  [f \in FileSet |->
     CASE f = "a.go" ->
            <<"package", "p", "\n",
              "func", " ", "a", "{", "s0", "/*c*/", "}", "\r", "\n", "\n",
              "/*c*/", "\n",
              "func", "(", "*", "T", ")", "a", "{", "s1", "}", "\n",
              "type", "T", "struct", "{", "a", "int", "}", "\n",
              "const", "(", "\n", "A", "=", "v0", "\n", "b", "\n", ")", "\n">>
       [] f = "b.go" ->
            <<"package", "p", "\n",
              "var", "b", "=", "v1", " ", ";", "func", "ab", "{", "}">>
       [] f = "ro.go" ->
            <<"package", "p", "\n",
              "var", "b", "int", "\n",
              "func", "ab", "{", "}", "\n">>]

\* the declarations the calls ask for
Targets ==
  {<<"func", <<"a">>>>, <<"type", <<"T">>>>, <<"varconst", <<"b">>>>}

\* the file arguments: a file of the tree, or none
FileArgs == FileSet \cup {""}
DstArgs  == FileSet \cup {Missing}

\* replacement texts read from standard input
NewTexts ==
  {<<"func", "a", "{", "/*c*/", "s1", "}">>,
   <<"type", "T", "int">>,
   <<"const", "b", "=", "v1">>,
   <<"}">>}

\* the names the locators are asked for
Queries == {<<"a">>, <<"b">>, <<"T">>, <<"T", ".", "a">>, <<"q">>}

-----------------------------------------------------------------------------
(* The calls *)

Call(op, kind, name, file, dst, text, installed, r, before) ==
  [op |-> op, kind |-> kind, name |-> name, file |-> file, dst |-> dst,
   text |-> text, installed |-> installed, r |-> r, before |-> before]

NoCall == Call("none", "", <<>>, "", "", <<>>, FALSE, Failure("", "", InitFs), InitFs)

NoMatch == [op |-> "none", query |-> <<>>, candidate |-> <<>>, result |-> FALSE,
            kindFilter |-> "", matches |-> <<>>, loc |-> <<>>, dir |-> Root]

Init ==
  /\ fs = InitFs
  /\ last = NoCall
  /\ prev = NoCall
  /\ steps = 0
  /\ mt = NoMatch
  /\ env \in Envs

\* the bookkeeping of every call: the file tree becomes what the call left,
\* and the call before is remembered when it succeeded
Record(c) ==
  /\ steps < MaxSteps
  /\ steps' = steps + 1
  /\ fs' = c.r.out
  /\ last' = c
  /\ prev' = IF last.r.ok THEN last ELSE NoCall
  /\ UNCHANGED <<mt, env>>

ReadCall ==
  \E t \in Targets, file \in FileArgs :
    Record(Call("read", t[1], t[2], file, "", <<>>, FALSE,
                ReadDecl(t[1], fs, t[2], file), fs))

ReplaceCall ==
  \E t \in Targets, file \in FileArgs, text \in NewTexts :
    Record(Call("replace", t[1], t[2], file, "", text, FALSE,
                Mutate("replace", t[1], fs, t[2], file, text), fs))

DeleteCall ==
  \E t \in Targets, file \in FileArgs :
    Record(Call("delete", t[1], t[2], file, "", <<>>, FALSE,
                Mutate("delete", t[1], fs, t[2], file, <<>>), fs))

\* AddFunc
InsertCall ==
  \E file \in DstArgs, text \in NewTexts :
    Record(Call("insert", "", <<>>, file, "", text, FALSE,
                AddFunc(fs, file, text), fs))

MoveCall ==
  \E t \in Targets, file \in FileArgs, dst \in DstArgs, installed \in BOOLEAN :
    /\ env.goimports => installed
    /\ Record(Call("move", t[1], t[2], file, dst, <<>>, installed,
                   MoveDecl(t[1], fs, t[2], dst, file, installed), fs))

\* locateSymbol / locateFunc / locateType called on their own
LocateCall ==
  \E kind \in {"symbol", "func", "type"}, name \in Queries :
    /\ steps < MaxSteps
    /\ steps' = steps + 1
    /\ mt' = [op |-> "locate", query |-> name, candidate |-> <<>>,
              result |-> FALSE,
              kindFilter |-> IF kind \in {"func", "type"} THEN kind ELSE "",
              matches |-> searchSymbols(fs, name,
                            IF kind \in {"func", "type"} THEN kind ELSE ""),
              loc |-> Locate(kind, fs, name),
              dir |-> Root]
    /\ last' = Call("locate", kind, name, "", "", <<>>, FALSE, Failure("", "", fs), fs)
    /\ prev' = IF last.r.ok THEN last ELSE NoCall
    /\ UNCHANGED <<fs, env>>

Next ==
  \/ ReadCall
  \/ ReplaceCall
  \/ DeleteCall
  \/ InsertCall
  \/ MoveCall
  \/ LocateCall

Spec == Init /\ [][Next]_vars

-----------------------------------------------------------------------------
(* The name matcher and the index on their own: the query is drawn first,  *)
(* then matched against a candidate or run through the index               *)

NameAlphabet == {"a", "A", "b", "T", "."}

RECURSIVE NamesUpTo(_)
NamesUpTo(n) ==
  IF n = 0 THEN {<<>>}
  ELSE NamesUpTo(n - 1) \cup
       {Append(w, c) : w \in {v \in NamesUpTo(n - 1) : Len(v) = n - 1},
                       c \in NameAlphabet}

KindFilters == {"", "func", "type", "field", "var", "const"}

InitMatch ==
  /\ fs = InitFs
  /\ last = NoCall
  /\ prev = NoCall
  /\ steps = 0
  /\ mt \in {[NoMatch EXCEPT !.op = "query", !.query = q] : q \in NamesUpTo(MaxNameLen)}
  /\ env = [goimports |-> FALSE, gofmt |-> FALSE]

MatchCall ==
  \E candidate \in NamesUpTo(MaxNameLen) :
    /\ mt.op = "query"
    /\ mt' = [mt EXCEPT !.op = "match", !.candidate = candidate,
                        !.result = matchName(candidate, mt.query)]
    /\ UNCHANGED <<fs, last, prev, steps, env>>

\* FindFunc / FindType / ... / searchSymbols with the drawn query
IndexCall ==
  \E kindFilter \in KindFilters :
    /\ mt.op = "query"
    /\ mt' = [mt EXCEPT !.op = "index", !.kindFilter = kindFilter,
                        !.matches = searchSymbols(fs, mt.query, kindFilter)]
    /\ UNCHANGED <<fs, last, prev, steps, env>>

NextMatch ==
  \/ MatchCall
  \/ IndexCall

SpecMatch == InitMatch /\ [][NextMatch]_vars

-----------------------------------------------------------------------------
(* A project with directories and a second package: the generic operations *)
(* and the index rooted at a directory                                     *)

TreeFs ==
  [f \in {".h/h.go", "a.go", "lib/l.go", "m.go", "sub/s.go", "testdata/t.go",
          "vendor/v.go"} |->
     CASE f = ".h/h.go" ->
            <<"package", "p", "\n", "func", "b", "{", "}", "\n">>
       [] f = "a.go" ->
            <<"package", "p", "\n",
              "func", "(", "*", "T", ")", "ab", "{", "\n", "s0", "\n", "}", "\n",
              "type", "T", "struct", "{", "a", "int", "}", "\n">>
       [] f = "lib/l.go" ->
            <<"package", "q", "\n", "func", "a", "{", "s0", "}", "\n",
              "type", "b", "int", "\n">>
       [] f = "m.go" ->
            <<"package", "p", "\n",
              "func", "a", "{", "s1", "}", "\n",
              "var", "b", "=", "v1", "\n">>
       [] f = "sub/s.go" ->
            <<"package", "p", "\n", "func", "A", "{", "}", "\n">>
       [] f = "testdata/t.go" ->
            <<"package", "p", "\n", "type", "T", "int", "\n">>
       [] f = "vendor/v.go" ->
            <<"package", "p", "\n", "var", "q", "=", "v0", "\n">>]

\* the names the generic operations and the index are asked for
TreeQueries == {<<"a">>, <<"A">>, <<"b">>, <<"T">>, <<"T", ".", "a">>, <<"q">>}

\* their file arguments
TreeFileArgs == {"", "a.go", "m.go"}
TreeDstArgs  == {"a.go", "m.go", "lib/l.go", "sub/s.go", Missing}

\* the directories the index is rooted at
TreeDirs == {Root, <<".h">>, <<"vendor">>, <<"testdata">>}

InitTree ==
  /\ fs = TreeFs
  /\ last = NoCall
  /\ prev = NoCall
  /\ steps = 0
  /\ mt = NoMatch
  /\ env = [goimports |-> FALSE, gofmt |-> FALSE]

GenericReplaceCall ==
  \E name \in TreeQueries, file \in TreeFileArgs, text \in NewTexts :
    Record(Call("replace", "symbol", name, file, "", text, FALSE,
                Replace(fs, name, file, text), fs))

GenericDeleteCall ==
  \E name \in TreeQueries, file \in TreeFileArgs :
    Record(Call("delete", "symbol", name, file, "", <<>>, FALSE,
                Delete(fs, name, file), fs))

GenericMoveCall ==
  \E name \in TreeQueries, dst \in TreeDstArgs, installed \in BOOLEAN :
    Record(Call("move", "symbol", name, "", dst, <<>>, installed,
                Move(fs, name, dst, installed), fs))

\* FindSymbol / FindFunc / ... with a directory argument
FindCall ==
  \E name \in TreeQueries, dir \in TreeDirs, kindFilter \in KindFilters :
    /\ steps < MaxSteps
    /\ steps' = steps + 1
    /\ mt' = [NoMatch EXCEPT !.op = "find", !.query = name, !.dir = dir,
                             !.kindFilter = kindFilter,
                             !.matches = searchSymbolsIn(fs, dir, name, kindFilter)]
    /\ last' = Call("find", kindFilter, name, "", "", <<>>, FALSE,
                    Failure("", "", fs), fs)
    /\ prev' = IF last.r.ok \/ last.op = "find" THEN last ELSE NoCall
    /\ UNCHANGED <<fs, env>>

NextTree ==
  \/ GenericReplaceCall
  \/ GenericDeleteCall
  \/ GenericMoveCall
  \/ FindCall

SpecTree == InitTree /\ [][NextTree]_vars

-----------------------------------------------------------------------------
(* RenamePackage: a project of directories one level below the root.  The   *)
(* texts of this part are sequences of units too, but a unit is a record    *)
(* of three strings, pre ++ core ++ post, so that the textual matches of    *)
(* strings.Contains and strings.Replace (a package name at the start of a   *)
(* longer word, at the end of one, inside a comment) are computed.  No      *)
(* package name of PkgNames is a part of another or of a pre or post.       *)

\* the package names the calls are given; the module path of go.mod is "m"
PkgNames == {"lib", "new", "old"}

Word(c)                == [t |-> "word", pre |-> "", core |-> c, post |-> ""]
Ident(pre, core, post) == [t |-> "word", pre |-> pre, core |-> core, post |-> post]
Sym(c)                 == [t |-> "sym", pre |-> "", core |-> c, post |-> ""]
\* the string literal "m/<dir><post>", as an import spec holds it
ImportOf(dir, post)    == [t |-> "str", pre |-> "m/", core |-> dir, post |-> post]

\* a file: its text, and whether os.WriteFile on it fails
RFile(ro, text) == [ro |-> ro, text |-> text]

\* a directory that is not there, and one that holds files
NoDir      == [exists |-> FALSE, files |-> <<>>]
Dir(files) == [exists |-> TRUE, files |-> files]

\* the directories, in the order filepath.Walk visits them (the root's own
\* file main.go sorts between lib and new)
RootDir   == "."
WalkOrder == <<"app", "lib", ".", "new", "old", "vendor">>
RDirs     == {WalkOrder[i] : i \in 1..Len(WalkOrder)}
\* the file names, in the order os.ReadDir lists them
BaseOrder == <<"main.go", "u.go", "u_test.go", "v.go", "w.go", "x.go">>
TestBases == {"u_test.go"}

RECURSIVE CommentEnd(_, _)
\* the index after the comment whose text starts at k
CommentEnd(s, k) ==
  IF k > Len(s) THEN k
  ELSE IF s[k] = Sym("*/") THEN k + 1
  ELSE CommentEnd(s, k + 1)

RECURSIVE ClauseStart(_, _)
\* the first index from k on that is not in a comment
ClauseStart(s, k) ==
  IF k <= Len(s) /\ s[k] = Sym("/*") THEN ClauseStart(s, CommentEnd(s, k + 1))
  ELSE k

\* parser.ParseFile(..., parser.PackageClauseOnly) on the text s, at index k
\* of its first unit outside a comment
ClauseParsedAt(s, k) ==
  IF k + 1 <= Len(s) /\ s[k] = Word("package") /\ s[k + 1].t = "word"
  THEN [ok |-> TRUE, name |-> s[k + 1]]
  ELSE [ok |-> FALSE, name |-> Word("")]

ClauseParsed(s) == ClauseParsedAt(s, ClauseStart(s, 1))

\* the non-test .go files of a directory, as indices of BaseOrder
SourceIdx(D) ==
  {i \in 1..Len(BaseOrder) :
     BaseOrder[i] \in DOMAIN D.files /\ BaseOrder[i] \notin TestBases}

\* the loop over the entries of one directory, which looks at the first
\* non-test .go file only ("break"): does it declare package oldName
HoldsPackage(D, oldName) ==
  /\ D.exists
  /\ SourceIdx(D) # {}
  /\ ClauseParsed(D.files[BaseOrder[Min(SourceIdx(D))]].text).ok
  /\ ClauseParsed(D.files[BaseOrder[Min(SourceIdx(D))]].text).name = Word(oldName)

\* the directories the search for the package does not enter
SkipSearch(d) == d # RootDir /\ d \in {"vendor", "testdata"}

\* the first walk: the first directory that holds the package, if any
FindPkgDir(F, oldName) ==
  LET hit == {i \in 1..Len(WalkOrder) :
                ~SkipSearch(WalkOrder[i]) /\ HoldsPackage(F[WalkOrder[i]], oldName)}
      root == IF HoldsPackage(F[RootDir], oldName) THEN <<RootDir>> ELSE <<>>
  IN IF root # <<>> THEN root
     ELSE IF hit = {} THEN <<>>
     ELSE <<WalkOrder[Min(hit)]>>

\* strings.Contains(src, "package "+oldName): the indices where the word
\* package is followed by a word that starts with oldName
DeclIdx(s, oldName) ==
  {i \in 1..(Len(s) - 1) :
     /\ s[i].t = "word" /\ s[i].core = "package" /\ s[i].post = ""
     /\ s[i + 1].t = "word" /\ s[i + 1].pre = "" /\ s[i + 1].core = oldName}

\* strings.Replace(src, "package "+oldName, "package "+newName, 1)
ReplaceDecl(s, oldName, newName) ==
  [s EXCEPT ![Min(DeclIdx(s, oldName)) + 1].core = newName]

RECURSIVE DeclsRewritten(_, _, _, _, _, _)
\* step 1: the loop over the .go files of the package directory d, from the
\* i-th name on; a file that cannot be written is passed over
DeclsRewritten(files, d, oldName, newName, i, changed) ==
  IF i > Len(BaseOrder) THEN [files |-> files, changed |-> changed]
  ELSE IF BaseOrder[i] \notin DOMAIN files
       THEN DeclsRewritten(files, d, oldName, newName, i + 1, changed)
  ELSE IF DeclIdx(files[BaseOrder[i]].text, oldName) = {} \/ files[BaseOrder[i]].ro
       THEN DeclsRewritten(files, d, oldName, newName, i + 1, changed)
  ELSE DeclsRewritten(
         [files EXCEPT ![BaseOrder[i]].text =
            ReplaceDecl(files[BaseOrder[i]].text, oldName, newName)],
         d, oldName, newName, i + 1, Append(changed, <<d, BaseOrder[i]>>))

\* os.Rename(pkgDir, newPkgDir)
Renamed(F, d, nd) ==
  [x \in DOMAIN F |-> IF x = nd THEN F[d] ELSE IF x = d THEN NoDir ELSE F[x]]

\* strings.Replace(f, oldName+"/", newName+"/", 1) on the paths listed so far
Repathed(changed, oldName, newName) ==
  [i \in 1..Len(changed) |->
     IF changed[i][1] = oldName THEN <<newName, changed[i][2]>> ELSE changed[i]]

\* the text holds the import path of directory d in quotes
HasImport(s, d) ==
  \E i \in 1..Len(s) : s[i] = ImportOf(d, "")

\* strings.ReplaceAll(content, "\"old path\"", "\"new path\"")
FixImports(s, d, nd) ==
  [i \in 1..Len(s) |-> IF s[i] = ImportOf(d, "") THEN ImportOf(nd, "") ELSE s[i]]

\* the places of oldName+".": a word that ends with oldName, then a dot
UsageIdx(s, oldName) ==
  {i \in 1..(Len(s) - 1) :
     /\ s[i].t = "word" /\ s[i].core = oldName /\ s[i].post = ""
     /\ s[i + 1] = Sym(".")}

\* strings.ReplaceAll(content, oldName+".", newName+".")
FixUsages(s, oldName, newName) ==
  [i \in 1..Len(s) |->
     IF i \in UsageIdx(s, oldName) THEN [s[i] EXCEPT !.core = newName] ELSE s[i]]

\* the directories the last walk does not enter
SkipFix(d) == d = "vendor"

\* the path is already in the list
Listed(changed, p) == \E i \in 1..Len(changed) : changed[i] = p

\* the i-th path of the last walk
WalkDir(i)  == WalkOrder[((i - 1) \div Len(BaseOrder)) + 1]
WalkBase(i) == BaseOrder[((i - 1) % Len(BaseOrder)) + 1]

\* step 3 on one file that is there: rewrite, write, list, count
FixedFile(acc, d, b, oldName, newName, oldDir, newDir) ==
  LET s       == acc.F[d].files[b].text
      imp     == oldDir # newDir /\ HasImport(s, oldDir)
      s1      == IF imp THEN FixImports(s, oldDir, newDir) ELSE s
      use     == UsageIdx(s1, oldName) # {}
      content == IF use THEN FixUsages(s1, oldName, newName) ELSE s1
  IN IF ~(imp \/ use) \/ acc.F[d].files[b].ro THEN acc
     ELSE [F       |-> [acc.F EXCEPT ![d].files[b].text = content],
           changed |-> IF Listed(acc.changed, <<d, b>>) THEN acc.changed
                       ELSE Append(acc.changed, <<d, b>>),
           fixed   |-> acc.fixed + 1]

RECURSIVE ImportsFixedFrom(_, _, _, _, _, _)
\* step 3: the walk over every .go file of the project, from the i-th on
ImportsFixedFrom(acc, i, oldName, newName, oldDir, newDir) ==
  IF i > Len(WalkOrder) * Len(BaseOrder) THEN acc
  ELSE IF SkipFix(WalkDir(i)) \/ ~acc.F[WalkDir(i)].exists
          \/ WalkBase(i) \notin DOMAIN acc.F[WalkDir(i)].files
       THEN ImportsFixedFrom(acc, i + 1, oldName, newName, oldDir, newDir)
  ELSE ImportsFixedFrom(
         FixedFile(acc, WalkDir(i), WalkBase(i), oldName, newName, oldDir, newDir),
         i + 1, oldName, newName, oldDir, newDir)

\* what RenamePackage returns, and the tree it leaves
RenameResult(ok, err, pkgDir, changed, fixed, F) ==
  [ok |-> ok, err |-> err, pkgDir |-> pkgDir, FilesChanged |-> changed,
   ImportsFixed |-> fixed, out |-> F]

\* step 3 run on the tree F, with the list of step 1
ImportsDone(acc, d) ==
  RenameResult(TRUE, "", <<d>>, acc.changed, acc.fixed, acc.F)

\* step 2, then step 3: the tree F1 is what step 1 left
DirRenamed(F1, oldName, newName, d, nd, changed) ==
  IF d # nd /\ F1[nd].exists
  THEN RenameResult(FALSE, "rename", <<d>>, <<>>, 0, F1)
  ELSE ImportsDone(
         ImportsFixedFrom(
           [F       |-> IF d # nd THEN Renamed(F1, d, nd) ELSE F1,
            changed |-> IF d # nd THEN Repathed(changed, oldName, newName)
                        ELSE changed,
            fixed   |-> 0],
           1, oldName, newName, d, nd),
         nd)

\* the steps once step 1 has returned s1
DeclsDone(F, oldName, newName, d, nd, s1) ==
  DirRenamed([F EXCEPT ![d].files = s1.files], oldName, newName, d, nd, s1.changed)

\* the package was found in directory d; the directory can be renamed when
\* its base name is the package name
RenameIn(F, oldName, newName, d) ==
  DeclsDone(F, oldName, newName, d, IF d = oldName THEN newName ELSE d,
            DeclsRewritten(F[d].files, d, oldName, newName, 1, <<>>))

\* the walk for the package returned pd
RenameFound(F, oldName, newName, pd) ==
  IF pd = <<>> THEN RenameResult(FALSE, "notfound", <<>>, <<>>, 0, F)
  ELSE RenameIn(F, oldName, newName, pd[1])

\* RenamePackage(oldName, newName)
RenamePackage(F, oldName, newName) ==
  RenameFound(F, oldName, newName, FindPkgDir(F, oldName))

\* the project: package old in directory old, used by main.go, by the
\* external test of the package, by a package lib kept in directory app and
\* by a vendored file; hdr puts a comment that reads "package old" on top
\* of old/u.go, roPkg and roMain make old/v.go and main.go read-only, and
\* newThere puts a directory new in place
RenameTree(hdr, roPkg, roMain, newThere) ==
  [d \in RDirs |->
     CASE d = "." ->
            Dir([b \in {"main.go"} |->
                   RFile(roMain,
                         <<Word("package"), Word("main"),
                           Word("import"), ImportOf("old", ""),
                           Word("old"), Sym("."), Word("A"),
                           Ident("h", "old", ""), Sym("."), Word("A")>>)])
       [] d = "app" ->
            Dir([b \in {"x.go"} |->
                   RFile(FALSE,
                         <<Word("package"), Word("lib"),
                           Word("import"), ImportOf("old", ""),
                           Word("import"), ImportOf("old", "/sub"),
                           Word("old"), Sym("."), Word("A")>>)])
       [] d = "old" ->
            Dir([b \in {"u.go", "u_test.go", "v.go"} |->
                   CASE b = "u.go" ->
                          RFile(FALSE,
                                (IF hdr THEN <<Sym("/*"), Word("package"),
                                               Word("old"), Sym("*/")>>
                                 ELSE <<>>)
                                \o <<Word("package"), Word("old"), Word("A")>>)
                     [] b = "u_test.go" ->
                          RFile(FALSE,
                                <<Word("package"), Ident("", "old", "_test"),
                                  Word("import"), ImportOf("old", ""),
                                  Word("old"), Sym("."), Word("A")>>)
                     [] OTHER ->
                          RFile(roPkg, <<Word("package"), Word("old")>>)])
       [] d = "new" ->
            IF newThere
            THEN Dir([b \in {"v.go"} |->
                        RFile(FALSE, <<Word("package"), Word("new")>>)])
            ELSE NoDir
       [] d = "vendor" ->
            Dir([b \in {"w.go"} |->
                   RFile(FALSE,
                         <<Word("package"), Word("old"),
                           Word("import"), ImportOf("old", ""),
                           Word("old"), Sym("."), Word("A")>>)])
       [] OTHER -> NoDir]

RenameTrees ==
  {RenameTree(hdr, roPkg, roMain, newThere) :
     hdr \in BOOLEAN, roPkg \in BOOLEAN, roMain \in BOOLEAN, newThere \in BOOLEAN}

RenameCall(oldName, newName, r, before) ==
  [op |-> "rename-package", oldName |-> oldName, newName |-> newName,
   r |-> r, before |-> before]

InitRename ==
  /\ fs \in RenameTrees
  /\ last = NoCall
  /\ prev = NoCall
  /\ steps = 0
  /\ mt = NoMatch
  /\ env = [goimports |-> FALSE, gofmt |-> FALSE]

RenamePackageCall ==
  \E oldName \in PkgNames, newName \in PkgNames :
    Record(RenameCall(oldName, newName, RenamePackage(fs, oldName, newName), fs))

NextRename == RenamePackageCall

SpecRename == InitRename /\ [][NextRename]_vars

-----------------------------------------------------------------------------
(* Two invocations of the tool at once: each mutator reads the file, works  *)
(* on the bytes it read and writes the whole file back; between the read    *)
(* and the write of one invocation the other may run                        *)

\* the invocations
Procs == {1, 2}

\* the files the two invocations are given
RaceFiles == {"a.go", "b.go"}

\* what one invocation asks for
RaceRequests ==
  {<<"replace", t, text>> : t \in Targets, text \in NewTexts}
  \cup {<<"delete", t, <<>> >> : t \in Targets}
  \cup {<<"insert", <<"", <<>> >>, text>> : text \in NewTexts}

\* os.ReadFile up to formatSource: the whole of the mutator but its write,
\* computed on the tree F as it is at the read
Prepared(q, F, file) ==
  IF q[1] = "insert" THEN AddFunc(F, file, q[3])
  ELSE Mutate(q[1], q[2][1], F, q[2][2], file, q[3])

\* a mutant of Committed: the write is dropped when the file is no longer
\* what the call read
CommittedIfUnchanged(F, c) ==
  IF ~c.r.ok \/ F[c.r.File] # c.before[c.r.File] THEN F
  ELSE [F EXCEPT ![c.r.File] = c.r.out[c.r.File]]

\* os.WriteFile(file, formatted, 0644): the whole file is replaced by what
\* the call computed, whatever the file holds by now
Committed(F, c) ==
  IF ~c.r.ok THEN F
  ELSE [F EXCEPT ![c.r.File] = c.r.out[c.r.File]]

Idle == [pc |-> "idle", c |-> NoCall]

InitRace ==
  /\ fs = InitFs
  /\ last = NoCall
  /\ prev = NoCall
  /\ steps = 0
  /\ mt = [p \in Procs |-> Idle]
  /\ env = [goimports |-> FALSE, gofmt |-> FALSE]

\* an invocation starts: it reads the file and computes the new content
ReadAndCompute(p) ==
  \E q \in RaceRequests, file \in RaceFiles :
    /\ mt[p].pc = "idle"
    /\ mt' = [mt EXCEPT ![p] =
                [pc |-> "read",
                 c  |-> Call(q[1], q[2][1], q[2][2], file, "", q[3], FALSE,
                             Prepared(q, fs, file), fs)]]
    /\ UNCHANGED <<fs, last, prev, steps, env>>

\* the invocation writes the file and returns its result
WriteBack(p) ==
  /\ mt[p].pc = "read"
  /\ fs' = Committed(fs, mt[p].c)
  /\ mt' = [mt EXCEPT ![p].pc = "done"]
  /\ last' = mt[p].c
  /\ prev' = last
  /\ steps' = steps + 1
  /\ UNCHANGED env

NextRace ==
  \/ \E p \in Procs : ReadAndCompute(p)
  \/ \E p \in Procs : WriteBack(p)

SpecRace == InitRace /\ [][NextRace]_vars

-----------------------------------------------------------------------------
(* The generic Read: every record of the index that carries the name *)

\* strings.Split(loc.Name, ".") and its last element
LastPart(n) ==
  LET dots == {i \in 1..Len(n) : n[i] = "."}
  IN IF dots = {} THEN n ELSE SubSeq(n, Max(dots) + 1, Len(n))

\* strings.LastIndex(name, "."), counted from 0; -1 when there is no dot
LastDot(n) ==
  LET dots == {i \in 1..Len(n) : n[i] = "."}
  IN IF dots = {} THEN -1 ELSE Max(dots) - 1

\* the struct type specs of decls named typeName that hold a field fieldName,
\* as <<declaration, spec, field>>, in the order the loops of ReadField meet them
FieldsNamed(decls, typeName, fieldName) ==
  Flatten([i \in 1..Len(decls) |->
    IF decls[i].tok # "type" THEN <<>>
    ELSE Flatten([j \in 1..Len(decls[i].specs) |->
      LET sp == decls[i].specs[j]
      IN IF sp.name # typeName \/ sp.kind # "struct" THEN <<>>
         ELSE Flatten([k \in 1..Len(sp.fields) |->
                IF sp.fields[k].name = fieldName THEN <<sp.fields[k]>> ELSE <<>>])])])

\* ReadField after its prologue settled on a file (rf: that file, if any)
ReadFieldIn(F, name, rf) ==
  IF rf = <<>> THEN Failure("notfound", "", F)
  ELSE IF ~Exists(F, rf[1]) THEN Failure("io", rf[1], F)
  ELSE LET src == F[rf[1]]
           f   == ParseFile(src)
           fds == IF f.ok
                  THEN FieldsNamed(f.decls, SubSeq(name, 1, LastDot(name)),
                                   SubSeq(name, LastDot(name) + 2, Len(name)))
                  ELSE <<>>
       IN IF ~f.ok THEN Failure("parse", rf[1], F)
          ELSE IF fds = <<>> THEN Failure("notfound", rf[1], F)
          ELSE Outcome(TRUE, "", rf[1], src, fds[1].pos, fds[1].end, <<>>,
                       SubSeq(src, fds[1].pos + 1, fds[1].end), <<>>, F)

\* ReadField: the name must be Type.Field
ReadField(F, name, fileArg) ==
  IF LastDot(name) <= 0 THEN Failure("format", fileArg, F)
  ELSE ReadFieldIn(F, name, ResolveFile("symbol", F, name, fileArg))

\* Read, the filter by file
InGivenFile(matches, file) ==
  IF file = "" THEN matches
  ELSE SelectSeq(matches, LAMBDA m : m.File = file)

\* Read, the test at the head of its loop: a record is read when its name, or
\* the last dotted part of its name, is the name asked for
CarriesName(loc, name) ==
  loc.Name = name \/ LastPart(loc.Name) = name

\* Read, the switch on loc.Kind: the per-kind read of one record
ReadRecord(F, loc) ==
  CASE loc.Kind = "func" -> ReadDecl("func", F, loc.Name, loc.File)
    [] loc.Kind \in {"struct", "interface", "type"} ->
         ReadDecl("type", F, loc.Name, loc.File)
    [] loc.Kind \in {"var", "const"} -> ReadDecl("varconst", F, loc.Name, loc.File)
    [] loc.Kind = "field" -> ReadField(F, loc.Name, loc.File)
    [] OTHER -> Failure("kind", loc.File, F)

\* Read, its loop: the results of the records that carry the name and whose
\* per-kind read succeeds
ReadEach(F, matches, name) ==
  Flatten([i \in 1..Len(matches) |->
    IF ~CarriesName(matches[i], name) THEN <<>>
    ELSE LET r == ReadRecord(F, matches[i])
         IN IF ~r.ok THEN <<>>
            ELSE <<[Name |-> matches[i].Name, Kind |-> matches[i].Kind,
                    File |-> r.File, Code |-> r.code]>>])

\* a ReadResults, or the error returned in its place
ReadResults(ok, err, results, F) ==
  [ok |-> ok, err |-> err, File |-> "", Results |-> results,
   Count |-> Len(results), out |-> F]

\* Read(name, file)
Read(F, name, file) ==
  LET matches  == searchSymbols(F, name, "")
      filtered == InGivenFile(matches, file)
  IN IF matches = <<>> THEN ReadResults(FALSE, "notfound", <<>>, F)
     ELSE IF filtered = <<>> THEN ReadResults(FALSE, "notfound", <<>>, F)
     ELSE ReadResults(TRUE, "", ReadEach(F, filtered, name), F)

\* the names Read is asked for
ReadQueries == TreeQueries \cup {<<"a", "b">>, <<"t">>, <<"z">>}

GenericReadCall ==
  \E name \in ReadQueries, file \in TreeFileArgs :
    Record(Call("read", "symbol", name, file, "", <<>>, FALSE,
                Read(fs, name, file), fs))

NextRead ==
  \/ GenericReadCall
  \/ GenericDeleteCall
  \/ GenericReplaceCall

SpecRead == InitTree /\ [][NextRead]_vars

-----------------------------------------------------------------------------
(* The raw line editor: a file as bytes, cut into lines at every "\n" *)

\* the bytes a file of the line editor is made of
LineBytes == {"a", "b", "\n"}
\* longest file the line editor starts from
MaxFileLen == 3
\* the start, end and after arguments run from -MaxNegArg to MaxLineArg
\* (a file of MaxFileLen bytes has at most MaxFileLen + 1 lines)
MaxNegArg == 1
MaxLineArg == 4

RECURSIVE BytesUpTo(_)
BytesUpTo(n) ==
  IF n = 0 THEN {<<>>}
  ELSE BytesUpTo(n - 1) \cup
       {Append(w, c) : w \in {v \in BytesUpTo(n - 1) : Len(v) = n - 1},
                       c \in LineBytes}

RECURSIVE SplitFrom(_, _, _)
SplitFrom(s, i, cur) ==
  IF i > Len(s) THEN <<cur>>
  ELSE IF s[i] = "\n" THEN <<cur>> \o SplitFrom(s, i + 1, <<>>)
  ELSE SplitFrom(s, i + 1, Append(cur, s[i]))

\* strings.Split(s, "\n"): always at least one line
Split(s) == SplitFrom(s, 1, <<>>)

RECURSIVE Join(_)
\* strings.Join(lines, "\n")
Join(lines) ==
  IF lines = <<>> THEN <<>>
  ELSE IF Len(lines) = 1 THEN lines[1]
  ELSE lines[1] \o <<"\n">> \o Join(Tail(lines))

\* the slice expression lines[lo:hi]: it panics unless 0 <= lo <= hi <= len
Slice(lines, lo, hi) ==
  IF 0 <= lo /\ lo <= hi /\ hi <= Len(lines)
  THEN [ok |-> TRUE, v |-> SubSeq(lines, lo + 1, hi)]
  ELSE [ok |-> FALSE, v |-> <<>>]

\* "if start < 1 { start = 1 }"
ClampStart(start) == IF start < 1 THEN 1 ELSE start

\* a mutant of ClampEnd: an end past the last line is kept
ClampEndBelowOnly(end, total) ==
  IF end < 0 THEN total ELSE end

\* "if end < 0 || end > total { end = total }"
ClampEnd(end, total) ==
  IF end < 0 \/ end > total THEN total ELSE end

\* InsertLines: "if after < 0 { after = 0 }; if after > total { after = total }"
ClampAfter(after, total) ==
  IF after < 0 THEN 0 ELSE IF after > total THEN total ELSE after

\* what a call of the line editor did: its result or error, whether a slice
\* expression panicked, and the file tree it left
LinesOutcome(ok, err, panic, start, end, text, count, out) ==
  [ok |-> ok, err |-> err, panic |-> panic, Start |-> start, End |-> end,
   Lines |-> text, Count |-> count, out |-> out]

LinesError(err, F) == LinesOutcome(FALSE, err, FALSE, 0, 0, <<>>, 0, F)
LinesPanic(F)      == LinesOutcome(FALSE, "panic", TRUE, 0, 0, <<>>, 0, F)

\* the write that ends ReplaceLines, DeleteLines and InsertLines; parts are
\* the slices the result is appended from
WriteLines(F, file, start, end, parts) ==
  LET w == WriteFile(F, file, Join(Flatten([i \in 1..Len(parts) |-> parts[i].v])))
  IN IF \E i \in 1..Len(parts) : ~parts[i].ok THEN LinesPanic(F)
     ELSE IF ~w.ok THEN LinesError("io", F)
     ELSE LinesOutcome(TRUE, "", FALSE, start, end, <<>>, 0, w.out)

ReadLines(F, file, start, end) ==
  IF ~Exists(F, file) THEN LinesError("io", F)
  ELSE LET lines == Split(F[file])
           total == Len(lines)
           s     == ClampStart(start)
           e     == ClampEnd(end, total)
           selected == Slice(lines, s - 1, e)
       IN IF s > e THEN LinesError("range", F)
          ELSE IF ~selected.ok THEN LinesPanic(F)
          ELSE LinesOutcome(TRUE, "", FALSE, s, e, Join(selected.v),
                            Len(selected.v), F)

ReplaceLines(F, file, start, end, newContent) ==
  IF ~Exists(F, file) THEN LinesError("io", F)
  ELSE LET lines == Split(F[file])
           total == Len(lines)
           s     == ClampStart(start)
           e     == ClampEnd(end, total)
       IN IF s > e THEN LinesError("range", F)
          ELSE WriteLines(F, file, s, e,
                          <<Slice(lines, 0, s - 1),
                            [ok |-> TRUE, v |-> Split(newContent)],
                            Slice(lines, e, total)>>)

DeleteLines(F, file, start, end) ==
  IF ~Exists(F, file) THEN LinesError("io", F)
  ELSE LET lines == Split(F[file])
           total == Len(lines)
           s     == ClampStart(start)
           e     == ClampEnd(end, total)
       IN IF s > e THEN LinesError("range", F)
          ELSE WriteLines(F, file, s, e,
                          <<Slice(lines, 0, s - 1), Slice(lines, e, total)>>)

InsertLines(F, file, after, newContent) ==
  IF ~Exists(F, file) THEN LinesError("io", F)
  ELSE LET lines == Split(F[file])
           total == Len(lines)
           a     == ClampAfter(after, total)
       IN WriteLines(F, file, a, a,
                     <<Slice(lines, 0, a),
                       [ok |-> TRUE, v |-> Split(newContent)],
                       Slice(lines, a, total)>>)

\* the file the line editor is pointed at
LineFile == "f.txt"

\* the line numbers it is given
LineArgs == (0 - MaxNegArg)..MaxLineArg

\* the new content it is given
NewContents == {<<>>, <<"b">>, <<"a", "\n", "b">>, <<"\n">>}

\* the lines the call before read, which a caller may write back
ReadBack ==
  IF last.op = "readlines" /\ last.r.ok THEN {last.r.Lines} ELSE {}

LineCall(op, file, start, end, text, r, before) ==
  [op |-> op, file |-> file, start |-> start, end |-> end, text |-> text,
   r |-> r, before |-> before]

InitLines ==
  /\ fs \in {[f \in {LineFile} |-> c] : c \in BytesUpTo(MaxFileLen)}
            \cup {[f \in {} |-> <<>>]}
  /\ last = NoCall
  /\ prev = NoCall
  /\ steps = 0
  /\ mt = NoMatch
  /\ env = [goimports |-> FALSE, gofmt |-> FALSE]

ReadLinesCall ==
  \E start \in LineArgs, end \in LineArgs :
    Record(LineCall("readlines", LineFile, start, end, <<>>,
                    ReadLines(fs, LineFile, start, end), fs))

ReplaceLinesCall ==
  \E start \in LineArgs, end \in LineArgs, text \in NewContents \cup ReadBack :
    Record(LineCall("replacelines", LineFile, start, end, text,
                    ReplaceLines(fs, LineFile, start, end, text), fs))

DeleteLinesCall ==
  \E start \in LineArgs, end \in LineArgs :
    Record(LineCall("deletelines", LineFile, start, end, <<>>,
                    DeleteLines(fs, LineFile, start, end), fs))

InsertLinesCall ==
  \E after \in LineArgs, text \in NewContents :
    Record(LineCall("insertlines", LineFile, after, after, text,
                    InsertLines(fs, LineFile, after, text), fs))

NextLines ==
  \/ ReadLinesCall
  \/ ReplaceLinesCall
  \/ DeleteLinesCall
  \/ InsertLinesCall

SpecLines == InitLines /\ [][NextLines]_vars

-----------------------------------------------------------------------------
(* Properties *)

\* C1: the resolver (locateSymbol, locateFunc, locateType) returns the first
\* record of the index's list whose Name equals the query exactly when there
\* is one, wherever it stands in the list; otherwise the first record of the
\* list; and it returns no record exactly when the list is empty.
ResolverPicksExactThenFirst ==
  (mt.op = "locate") =>
    LET m     == mt.matches
        exact == {i \in 1..Len(m) : m[i].Name = mt.query}
    IN /\ (mt.loc = <<>>) <=> (m = <<>>)
       /\ exact # {} => mt.loc = <<m[Min(exact)]>>
       /\ (exact = {} /\ m # <<>>) => mt.loc = <<m[1]>>

\* the exact record stands after a fuzzy one and is the one returned
ResolverExactAfterFuzzy ==
  /\ mt.op = "locate"
  /\ Len(mt.matches) >= 2
  /\ mt.matches[1].Name # mt.query
  /\ mt.matches[2].Name = mt.query
  /\ mt.loc = <<mt.matches[2]>>

\* the query, folded to lower case, occurs in the candidate folded to lower case
FoldedSubstring(candidate, query) ==
  \E off \in 0..(Len(candidate) - Len(query)) :
    \A j \in 1..Len(query) :
      LowerChar(candidate[off + j]) = LowerChar(query[j])

\* every record the index can give under a filter: the empty query matches all
AllRecords(F, kindFilter) == searchSymbols(F, <<>>, kindFilter)

\* C2: matchName(candidate, query) holds exactly when the two are equal, or
\* equal ignoring case, or the lower-cased query is a substring of the
\* lower-cased candidate; and the index returns exactly the records whose bare
\* identifier or qualified name (Receiver.Method, Type.Field) the matcher
\* accepts.
MatcherAndIndexAgree ==
  /\ (mt.op = "match") =>
       (mt.result <=> \/ mt.candidate = mt.query
                      \/ EqualFold(mt.candidate, mt.query)
                      \/ FoldedSubstring(mt.candidate, mt.query))
  /\ (mt.op = "index") =>
       mt.matches =
         SelectSeq(AllRecords(fs, mt.kindFilter),
                   LAMBDA r : \/ matchName(r.Ident, mt.query)
                              \/ matchName(r.Name, mt.query))

\* a candidate accepted only through case folding, as a proper substring
MatcherFoldsSubstring ==
  /\ mt.op = "match"
  /\ mt.result
  /\ Len(mt.query) > 0
  /\ Len(mt.query) < Len(mt.candidate)
  /\ ~Contains(mt.candidate, mt.query)

\* the declarations of a text, none when it does not parse
DeclsOf(text) == ParseFile(text).decls

\* the text of a declaration's span
SpanText(text, d) == SubSeq(text, d.start + 1, d.end)

\* declaration d is named name: a function by its identifier, alone or behind
\* its receiver type (with or without the star); a type, variable or constant
\* declaration by one of the names it declares
NamedBy(kind, d, name) ==
  IF kind = "func"
  THEN /\ d.tok = "func"
       /\ \/ name = d.name
          \/ /\ d.recv # <<>>
             /\ name \in {d.recv \o <<".">> \o d.name,
                          SelectSeq(d.recv, LAMBDA c : c # "*") \o <<".">> \o d.name}
  ELSE /\ d.tok \in (IF kind = "type" THEN {"type"} ELSE {"var", "const"})
       /\ \E i \in 1..Len(d.specs) : d.specs[i].name = name

\* the file a call worked on
Worked(c) == c.r.File

\* C3: in a replace (function, type, var/const) the buffer handed to the
\* formatter is src[0:start] ++ newText ++ src[end:], where src is the file
\* content this call read and [start, end) is the span of a declaration named
\* name: the units before start and from end on are kept, unchanged and in order.
ReplaceSplicesSpan ==
  (last.op = "replace" /\ last.r.ok) =>
    LET src   == last.before[Worked(last)]
        buf   == last.r.buf
        start == last.r.start
        end   == last.r.end
        text  == last.text
    IN /\ last.r.src = src
       /\ \E i \in 1..Len(DeclsOf(src)) :
            /\ DeclsOf(src)[i].start = start
            /\ DeclsOf(src)[i].end = end
            /\ NamedBy(last.kind, DeclsOf(src)[i], last.name)
       /\ 0 <= start /\ start <= end /\ end <= Len(src)
       /\ Len(buf) = start + Len(text) + (Len(src) - end)
       /\ \A i \in 1..start : buf[i] = src[i]
       /\ \A j \in 1..Len(text) : buf[start + j] = text[j]
       /\ \A i \in (end + 1)..Len(src) : buf[start + Len(text) + (i - end)] = src[i]

\* a replace in the middle of a file: text stands before and after the span
ReplaceInsideFile ==
  /\ last.op = "replace"
  /\ last.r.ok
  /\ last.r.start > 3
  /\ last.r.end < Len(last.r.src)
  /\ last.r.buf # last.r.src

\* C4: a delete removes the span of a declaration named name and the longest
\* run of line-feed and carriage-return units right after it, nothing else:
\* every other declaration of the file stands unchanged in the buffer (before
\* formatting), and the deleted one is gone from it.
DeleteRemovesSpanAndLineBreaks ==
  (last.op = "delete" /\ last.r.ok) =>
    LET src   == last.before[Worked(last)]
        buf   == last.r.buf
        start == last.r.start
        end   == last.r.end
        ds    == DeclsOf(src)
        gone  == end - start
    IN /\ last.r.src = src
       /\ \E t \in 1..Len(ds) :
            /\ ds[t].start = start
            /\ NamedBy(last.kind, ds[t], last.name)
            /\ ds[t].end <= end /\ end <= Len(src)
            /\ \A i \in (ds[t].end + 1)..end : src[i] \in {"\n", "\r"}
            /\ end = Len(src) \/ src[end + 1] \notin {"\n", "\r"}
            /\ \A i \in (1..Len(ds)) \ {t} :
                 /\ ds[i].end <= start \/ ds[i].start >= end
                 /\ ds[i].end <= start =>
                      SubSeq(buf, ds[i].start + 1, ds[i].end) = SpanText(src, ds[i])
                 /\ ds[i].start >= end =>
                      SubSeq(buf, ds[i].start + 1 - gone, ds[i].end - gone)
                        = SpanText(src, ds[i])
            /\ ParseFile(buf).ok =>
                 [i \in 1..Len(DeclsOf(buf)) |-> SpanText(buf, DeclsOf(buf)[i])]
                   = [i \in 1..(Len(ds) - 1) |->
                        SpanText(src, ds[IF i < t THEN i ELSE i + 1])]
       /\ Len(buf) = Len(src) - gone
       /\ \A i \in 1..start : buf[i] = src[i]
       /\ \A i \in (end + 1)..Len(src) : buf[i - gone] = src[i]

\* a delete that takes a carriage return and two line feeds with the span, and
\* leaves declarations behind it
DeleteTakesLineBreaks ==
  /\ last.op = "delete"
  /\ last.r.ok
  /\ last.r.end < Len(last.r.src)
  /\ \E t \in 1..Len(DeclsOf(last.r.src)) :
       /\ DeclsOf(last.r.src)[t].start = last.r.start
       /\ last.r.end >= DeclsOf(last.r.src)[t].end + 3
       /\ t < Len(DeclsOf(last.r.src))

\* the call just made repeats the arguments of the successful call before it
SameTarget ==
  /\ prev.r.ok
  /\ last.kind = prev.kind
  /\ last.name = prev.name
  /\ last.file = prev.file

\* text is one declaration of the kind, named name
TextDeclares(kind, text, name) ==
  LET f == ParseFile(<<"package", "p", "\n">> \o text)
  IN /\ f.ok
     /\ Len(f.decls) = 1
     /\ NamedBy(kind, f.decls[1], name)

\* C5: after a successful replace(name, file, newText), read(name, file)
\* succeeds and returns code equal to newText once formatting white space is
\* ignored (newText being one declaration named name).
ReplaceThenReadGivesNewText ==
  (/\ last.op = "read"
   /\ prev.op = "replace"
   /\ SameTarget
   /\ TextDeclares(prev.kind, prev.text, prev.name)) =>
    /\ last.r.ok
    /\ Strip(last.r.code) = Strip(prev.text)

\* C6 as stated: a delete that follows a successful delete with the same
\* arguments fails with not-found and leaves the files alone.
SecondDeleteNotFound ==
  (last.op = "delete" /\ prev.op = "delete" /\ SameTarget) =>
    /\ ~last.r.ok
    /\ last.r.err = "notfound"
    /\ fs = last.before

\* C6, amended: when the file is named explicitly and held exactly one
\* declaration named name, a delete that follows a successful delete with the
\* same arguments fails and leaves every file alone; the error is not-found
\* when the file still parses, and the parser's error when the first delete
\* left it unparseable.
SecondDeleteOfOnlyDeclFails ==
  (/\ last.op = "delete"
   /\ prev.op = "delete"
   /\ SameTarget
   /\ last.file # ""
   /\ Cardinality({i \in 1..Len(DeclsOf(prev.before[prev.file])) :
         NamedBy(prev.kind, DeclsOf(prev.before[prev.file])[i], prev.name)}) = 1) =>
    /\ ~last.r.ok
    /\ fs = last.before
    /\ last.r.err = IF ParseFile(fs[last.file]).ok THEN "notfound" ELSE "parse"

\* the second delete of a file's only declaration of the name ends not-found
SecondDeleteHappens ==
  /\ last.op = "delete"
  /\ prev.op = "delete"
  /\ SameTarget
  /\ last.file # ""
  /\ Cardinality({i \in 1..Len(DeclsOf(prev.before[prev.file])) :
        NamedBy(prev.kind, DeclsOf(prev.before[prev.file])[i], prev.name)}) = 1
  /\ last.r.err = "notfound"

IsPrefix(p, t) == Len(p) <= Len(t) /\ SubSeq(t, 1, Len(p)) = p

\* text parses and holds a declaration named name
DeclaredIn(kind, text, name) ==
  /\ ParseFile(text).ok
  /\ \E i \in 1..Len(DeclsOf(text)) : NamedBy(kind, DeclsOf(text)[i], name)

\* the sub-steps a move recorded, by name
StepNames(c) == [i \in 1..Len(c.r.trace) |-> c.r.trace[i].step]

\* the source file a move took the declaration from
MovedFrom(c) == c.r.trace[1].file

MoveFailsAfterDelete ==
  (last.op = "move" /\ ~last.r.ok /\ Len(last.r.trace) = 2) =>
    LET src == MovedFrom(last)
        old == last.before
        del == last.r.trace[2]
        left == SubSeq(old[src], 1, del.start)
                  \o SubSeq(old[src], del.end + 1, Len(old[src]))
    IN /\ last.r.err = "io"
       /\ last.dst \in ReadOnly \cup {Missing}
       /\ StepNames(last) = <<"read", "delete">>
       /\ del.end > del.start
       /\ fs[src] \in {left, Canon(left)}
       /\ fs[src] # old[src]
       /\ fs = del.fs
       /\ \A f \in FileSet \ {src} : fs[f] = old[f]

\* a move whose destination cannot be written, after the delete went through
MoveLosesDeclaration ==
  /\ last.op = "move"
  /\ ~last.r.ok
  /\ Len(last.r.trace) = 2
  /\ last.dst \in ReadOnly
  /\ ~DeclaredIn(last.kind, fs[MovedFrom(last)], last.name)
  /\ DeclaredIn(last.kind, last.before[MovedFrom(last)], last.name)

\* C9: for two files A and B and a declaration named name in A (B a file that
\* parses and declares no such name), move(name, A, B) followed by
\* move(name, B, A) both succeed, leave in A a declaration named name whose
\* content equals the original's up to formatting, and leave none in B.
MoveRoundTripRestores ==
  (/\ prev.op = "move"
   /\ prev.r.ok
   /\ last.op = "move"
   /\ last.kind = prev.kind
   /\ last.name = prev.name
   /\ prev.file # ""
   /\ prev.file # prev.dst
   /\ last.file = prev.dst
   /\ last.dst = prev.file
   /\ ParseFile(prev.before[prev.dst]).ok
   /\ ~DeclaredIn(prev.kind, prev.before[prev.dst], prev.name)) =>
    LET A    == prev.file
        B    == prev.dst
        orig == SubSeq(prev.before[A], prev.r.trace[1].start + 1, prev.r.trace[1].end)
    IN /\ last.r.ok
       /\ \E i \in 1..Len(DeclsOf(fs[A])) :
            /\ NamedBy(last.kind, DeclsOf(fs[A])[i], last.name)
            /\ Strip(SpanText(fs[A], DeclsOf(fs[A])[i])) = Strip(orig)
       /\ ~DeclaredIn(last.kind, fs[B], last.name)

\* the file named to the call holds no declaration named name
NamesNoDecl(c) ==
  /\ c.file \in FileSet
  /\ ~DeclaredIn(c.kind, c.before[c.file], c.name)

\* C10: read, replace, delete and move (function, type, var/const) called with
\* an explicit file that holds no declaration named name return an error and
\* leave every file, the destination of a move included, as it was; the error
\* is not-found when the file parses.
NotFoundChangesNothing ==
  (last.op \in {"read", "replace", "delete", "move"} /\ NamesNoDecl(last)) =>
    /\ ~last.r.ok
    /\ last.r.err \in {"notfound", "parse"}
    /\ ParseFile(last.before[last.file]).ok => last.r.err = "notfound"
    /\ fs = last.before

\* a move is refused for a file that parses and declares only a longer name
MoveNotFoundInFile ==
  /\ last.op = "move"
  /\ NamesNoDecl(last)
  /\ last.r.err = "notfound"
  /\ last.dst \in FileSet \ ReadOnly
  /\ searchSymbols(last.before, last.name, "func") # <<>>
  /\ \E i \in 1..Len(DeclsOf(last.before[last.file])) :
       /\ DeclsOf(last.before[last.file])[i].tok = "func"
       /\ matchName(DeclsOf(last.before[last.file])[i].name, last.name)

\* a call of a generic operation (Replace, Delete, Move)
Generic(c) == c.kind = "symbol" /\ c.op \in {"replace", "delete", "move"}

\* the record a generic call resolves its name to, as a sequence of at most one
Resolved(c) ==
  IF c.op = "move"
  THEN PickFrom(searchSymbolsIn(c.before, DirOf(c.dst), c.name, ""), c.name,
                InPackage(c.before,
                          searchSymbolsIn(c.before, DirOf(c.dst), c.name, ""),
                          getPackageName(c.before, c.dst).pkg))
  ELSE locateSymbol(c.before, c.name)

\* the generic call c, which resolved its name to rs, got as far as looking
\* at the kind of its record
ReachedKind(c, rs) ==
  /\ rs # <<>>
  /\ c.op = "move" => /\ getPackageName(c.before, c.dst).ok
                      /\ rs[1].File # c.dst

\* what the mutator variant v returns for the arguments of the generic call c
\* whose record is loc
ByVariant(c, v, loc) ==
  IF c.op = "move"
  THEN MoveDecl(v, c.before, c.name, c.dst, loc.File, c.installed)
  ELSE Mutate(c.op, v, c.before, c.name,
              IF c.file = "" THEN loc.File ELSE c.file, c.text)

\* C11: a generic Replace, Delete or Move whose name resolves to a record of
\* kind func returns what the function mutator returns, of kind struct,
\* interface or type what the type mutator returns, of kind var or const what
\* the var/const mutator returns; for a record of kind field, or any other
\* kind, it fails with the unsupported-kind error and leaves every file as it
\* was.
DispatchRoutesByKind ==
  Generic(last) =>
    LET rs == Resolved(last)
    IN ReachedKind(last, rs) =>
         /\ rs[1].Kind = "func" => last.r = ByVariant(last, "func", rs[1])
         /\ rs[1].Kind \in {"struct", "interface", "type"} =>
              last.r = ByVariant(last, "type", rs[1])
         /\ rs[1].Kind \in {"var", "const"} =>
              last.r = ByVariant(last, "varconst", rs[1])
         /\ rs[1].Kind \notin {"func", "struct", "interface", "type", "var", "const"} =>
              /\ ~last.r.ok
              /\ last.r.err = "unsupported"
              /\ last.r.out = last.before
              /\ fs = last.before

\* a generic replace of a struct field is turned down
DispatchRejectsField ==
  /\ Generic(last)
  /\ last.op = "replace"
  /\ ReachedKind(last, Resolved(last))
  /\ Resolved(last)[1].Kind = "field"
  /\ last.r.err = "unsupported"
  /\ fs = last.before

\* a replace, delete or insert of one of the mutators
Edit(c) == c.kind # "symbol" /\ c.op \in {"replace", "delete", "insert"}

\* the formatter the chain of formatSource stops at for the buffer buf
FirstFormatter(buf) ==
  IF ParseFile(buf).ok THEN "format.Source"
  ELSE IF env.goimports THEN "goimports"
  ELSE IF env.gofmt THEN "gofmt"
  ELSE "unformatted"

\* C12: in a replace, delete or insert the formatters are tried in the order
\* format.Source, goimports, gofmt; the first that succeeds gives the bytes
\* written, and when all fail the spliced buffer is written as it is.  No
\* outcome of the formatters makes the call fail: once the buffer is built the
\* call succeeds whenever the file can be written, and the file then holds
\* those bytes.
FormatNeverBlocksEdit ==
  (Edit(last) /\ last.r.buf # <<>>) =>
    LET buf  == last.r.buf
        file == Worked(last)
        by   == FirstFormatter(buf)
    IN /\ last.r.ok <=> file \notin ReadOnly
       /\ ~last.r.ok => last.r.err = "io" /\ fs = last.before
       /\ last.r.ok =>
            /\ StepNames(last) = <<by>>
            /\ fs[file] = IF by = "unformatted" THEN buf ELSE Canon(buf)
            /\ \A f \in DOMAIN fs : f # file => fs[f] = last.before[f]

\* every formatter failed on the buffer of a replace, and the file holds the
\* buffer as it was spliced
UnformattedBufferWritten ==
  /\ Edit(last)
  /\ last.op = "replace"
  /\ last.r.ok
  /\ ~ParseFile(last.r.buf).ok
  /\ ~env.goimports /\ ~env.gofmt
  /\ fs[Worked(last)] = last.r.buf
  /\ last.r.buf # Canon(last.r.buf)

\* C13: an insert (AddFunc) looks no name up and parses nothing: it never
\* fails with not-found or with a parse error, and for every file that exists
\* the buffer it builds, before formatting, is the old content, two line
\* breaks, the new text and one line break: the old content is a prefix of
\* the buffer, unchanged, and the new text stands at its end.
InsertAppendsToOldContent ==
  (last.op = "insert") =>
    LET old == last.before[last.file]
        buf == last.r.buf
    IN /\ last.r.err \notin {"notfound", "parse"}
       /\ ~Exists(last.before, last.file) => ~last.r.ok /\ fs = last.before
       /\ Exists(last.before, last.file) =>
            /\ last.r.src = old
            /\ buf = old \o <<"\n", "\n">> \o last.text \o <<"\n">>
            /\ IsPrefix(old, buf)
            /\ SubSeq(buf, Len(buf) - Len(last.text), Len(buf) - 1) = last.text
            /\ last.r.ok <=> last.file \notin ReadOnly

\* an insert into a file that no longer parses and declares nothing: it
\* succeeds and the old content is kept in front
InsertIntoBrokenFile ==
  /\ last.op = "insert"
  /\ last.r.ok
  /\ ~ParseFile(last.before[last.file]).ok
  /\ IsPrefix(last.before[last.file], last.r.buf)
  /\ Len(last.r.buf) = Len(last.before[last.file]) + Len(last.text) + 3

\* the call just made is a search, and mt holds what it returned for the tree
\* fs
Found == mt.op = "find" /\ last.op = "find"

\* the directory names the index is said to leave out, besides the hidden
\* ones: the vendored dependencies and the test fixtures
ExcludedDirs == {"vendor", "testdata"}

\* file lies under dir with no hidden or excluded directory on the way down
\* from dir (dir itself may be hidden or excluded)
Unpruned(dir, file) ==
  /\ Under(dir, file)
  /\ \A k \in (Len(dir) + 1)..Len(DirOf(file)) :
       ~HasDotPrefix(DirOf(file)[k]) /\ DirOf(file)[k] \notin ExcludedDirs

\* C14: a search rooted at a directory returns no record of a file that lies
\* below a hidden, vendor or test-fixture directory under the root, and it
\* returns the records of every other file under the root, also when the root
\* itself is hidden or so named.
IndexPrunesExcludedDirs ==
  Found =>
    /\ \A i \in 1..Len(mt.matches) : Unpruned(mt.dir, mt.matches[i].File)
    /\ mt.matches =
         WalkRecords(fs,
                     SelectSeq(TreeFiles,
                               LAMBDA f : Exists(fs, f) /\ Unpruned(mt.dir, f)),
                     mt.query, mt.kindFilter)

\* the same with the vendor directory alone in the excluded set: what the
\* index does
IndexPrunesHiddenAndVendor ==
  Found =>
    /\ \A i \in 1..Len(mt.matches) :
         LET d == DirOf(mt.matches[i].File)
         IN /\ Under(mt.dir, mt.matches[i].File)
            /\ \A k \in (Len(mt.dir) + 1)..Len(d) :
                 ~HasDotPrefix(d[k]) /\ d[k] # "vendor"
    /\ (mt.dir = <<".h">> /\ mt.query = <<"b">> /\ mt.kindFilter = "") =>
         Len(mt.matches) = 1

\* the record kinds of each coarse category a filter names
KindsOf(kindFilter) ==
  CASE kindFilter = "func"  -> {"func"}
    [] kindFilter = "type"  -> {"struct", "interface", "type"}
    [] kindFilter = "var"   -> {"var"}
    [] kindFilter = "const" -> {"const"}
    [] kindFilter = "field" -> {"field"}

\* C15: with a kind filter the index returns only records of that category:
\* functions and methods for "func", struct, interface and other type records
\* for "type", variables for "var", constants for "const", and field records,
\* never the record of the type that holds them, for "field".
FilterKeepsOneCategory ==
  (mt.op = "index" /\ mt.kindFilter # "") =>
    \A i \in 1..Len(mt.matches) : mt.matches[i].Kind \in KindsOf(mt.kindFilter)

\* the same for every filter but "type": what the index does
FilterKeepsCategoryButType ==
  (mt.op = "index" /\ mt.kindFilter \notin {"", "type"}) =>
    \A i \in 1..Len(mt.matches) : mt.matches[i].Kind \in KindsOf(mt.kindFilter)

\* the record m is that of a method: the function declared at its offset in
\* its file has a receiver
OfMethod(F, m) ==
  \E i \in 1..Len(DeclsOf(F[m.File])) :
    /\ DeclsOf(F[m.File])[i].tok = "func"
    /\ DeclsOf(F[m.File])[i].npos = m.Offset
    /\ DeclsOf(F[m.File])[i].recv # <<>>

\* C16, as claimed: every record of the index has EndLine >= Line, a Parent
\* exactly when its kind is field, and a Receiver exactly when its kind is
\* method.
RecordInvariantsWithMethodKind ==
  Found =>
    \A i \in 1..Len(mt.matches) :
      LET m == mt.matches[i]
      IN /\ m.EndLine >= m.Line
         /\ (m.Parent # <<>>) <=> (m.Kind = "field")
         /\ (m.Receiver # <<>>) <=> (m.Kind = "method")

\* C16, amended: every record of the index has EndLine >= Line and a Parent
\* exactly when its kind is field; it has a Receiver exactly when it is the
\* record of a method, and such a record has the kind func and the name
\* Receiver.Method: the index has no kind method.
RecordInvariants ==
  Found =>
    \A i \in 1..Len(mt.matches) :
      LET m == mt.matches[i]
      IN /\ m.EndLine >= m.Line
         /\ (m.Parent # <<>>) <=> (m.Kind = "field")
         /\ (m.Receiver # <<>>) <=> OfMethod(fs, m)
         /\ (m.Receiver # <<>>) =>
              /\ m.Kind = "func"
              /\ m.Name = Qualified(m.Receiver, m.Ident)
         /\ m.Kind # "method"

\* a search that returns a method spanning several lines and a field
MethodAndFieldFound ==
  /\ Found
  /\ \E i, j \in 1..Len(mt.matches) :
       /\ mt.matches[i].Receiver # <<>>
       /\ mt.matches[i].EndLine > mt.matches[i].Line
       /\ mt.matches[j].Kind = "field"
       /\ mt.matches[j].Parent # <<>>

\* the unit u stands somewhere in the text s
UnitIn(u, s) == \E i \in 1..Len(s) : s[i] = u

\* the last call replaced or deleted a variable or constant
VarConstEdit(c) ==
  c.op \in {"replace", "delete"} /\ c.kind = "varconst" /\ c.r.ok

\* C17: a replace or delete of a variable or constant works on the whole
\* declaration that holds the name: its span starts at the keyword var or
\* const and covers every spec of the declaration, up to the closing
\* parenthesis of a group; the file written holds, formatting aside, what
\* stood before the span, the new text and what stood after it, so a value of
\* the group that stands nowhere else is gone and the other names of the
\* group went with it.
GroupedSpanIsWholeGroup ==
  VarConstEdit(last) =>
    LET src   == last.r.src
        ds    == DeclsOf(src)
        start == last.r.start
        end   == last.r.end
        out   == fs[last.r.File]
        rest  == SubSeq(src, 1, start) \o SubSeq(src, end + 1, Len(src))
    IN /\ \E i \in 1..Len(ds) :
            /\ ds[i].tok \in {"var", "const"}
            /\ ds[i].start = start
            /\ src[start + 1] = ds[i].tok
            /\ IF last.op = "replace" THEN ds[i].end = end ELSE ds[i].end <= end
            /\ \E k \in 1..Len(ds[i].specs) : ds[i].specs[k].name = last.name
            /\ \A k \in 1..Len(ds[i].specs) :
                 /\ start <= ds[i].specs[k].pos
                 /\ ds[i].specs[k].end <= ds[i].end
                 /\ ds[i].specs[k].hasValue =>
                      (UnitIn(ds[i].specs[k].value, out) =>
                         UnitIn(ds[i].specs[k].value, rest \o last.text))
       /\ Strip(out) = Strip(SubSeq(src, 1, start)) \o Strip(last.text)
                         \o Strip(SubSeq(src, end + 1, Len(src)))

\* a replace of the constant b, declared in a group of two constants, by a
\* declaration with a new value: the new value is in the file and the value
\* of the other constant of the group is not
GroupReplacedByOneConstant ==
  /\ VarConstEdit(last)
  /\ last.op = "replace"
  /\ last.text = <<"const", "b", "=", "v1">>
  /\ \E i \in 1..Len(DeclsOf(last.r.src)) :
       /\ DeclsOf(last.r.src)[i].start = last.r.start
       /\ Len(DeclsOf(last.r.src)[i].specs) = 2
       /\ DeclsOf(last.r.src)[i].specs[1].value = "v0"
  /\ UnitIn("v1", fs[last.r.File])
  /\ ~UnitIn("v0", fs[last.r.File])

\* the operations that change files
Mutators == {"replace", "delete", "insert", "move"}

\* the files the call c wrote, as its steps list them
Touched(c) == {c.r.trace[i].file : i \in 1..Len(c.r.trace)}

\* C18: a mutating operation (replace, delete, insert, move) that succeeds
\* reports a file in its result: File is not empty and names a file the call
\* wrote; it is the file argument when replace, delete or insert was given
\* one, and the destination for a move.
ResultNamesTouchedFile ==
  (last.op \in Mutators /\ last.r.ok) =>
    /\ last.r.File # ""
    /\ last.r.File \in Touched(last)
    /\ (last.op # "move" /\ last.file # "") => last.r.File = last.file
    /\ (last.op = "move") => last.r.File = last.dst

\* a replace or delete called without a file that succeeded: the file it
\* reports is the one the locator found, and its content changed
FileReportedWithoutArgument ==
  /\ last.op \in {"replace", "delete"}
  /\ last.file = ""
  /\ last.r.ok
  /\ last.r.File \in FileSet
  /\ fs[last.r.File] # last.before[last.r.File]

\* the files f and g belong to one package: they lie in one directory and
\* their package clauses give one name
SamePackage(F, f, g) ==
  /\ DirOf(f) = DirOf(g)
  /\ getPackageName(F, f).ok
  /\ getPackageName(F, g).ok
  /\ getPackageName(F, f).pkg = getPackageName(F, g).pkg

\* the files f and g carry one package name, wherever they lie
SamePackageName(F, f, g) ==
  /\ getPackageName(F, f).ok
  /\ getPackageName(F, g).ok
  /\ getPackageName(F, f).pkg = getPackageName(F, g).pkg

\* the files whose content the call c changed
Changed(c, F) == {f \in DOMAIN F : F[f] # c.before[f]}

\* the generic move c stopped at one of its three checks: the destination has
\* no package clause, no record of its package matches, or the record picked
\* lies in the destination itself
MoveRefused(c, rs) ==
  \/ ~getPackageName(c.before, c.dst).ok
  \/ rs = <<>>
  \/ rs[1].File = c.dst

\* C19: a generic Move works within one package and never onto the file it
\* takes from: the declaration comes from a file of the destination's package
\* other than the destination, so every file a move changes is a file of
\* that package; when the destination's package cannot be read, no record of
\* that package matches or the record picked lies in the destination, the
\* move fails and no file is changed.
MoveStaysInOnePackage ==
  (Generic(last) /\ last.op = "move") =>
    LET rs == Resolved(last)
    IN /\ \A f \in Changed(last, fs) : SamePackage(last.before, f, last.dst)
       /\ last.r.ok => (rs # <<>> /\ rs[1].File # last.dst
                         /\ SamePackage(last.before, rs[1].File, last.dst))
       /\ MoveRefused(last, rs) => (~last.r.ok /\ Changed(last, fs) = {})

\* the same with the package told by its name alone, as Move compares it
MoveStaysInOnePackageName ==
  (Generic(last) /\ last.op = "move") =>
    LET rs == Resolved(last)
    IN /\ \A f \in Changed(last, fs) : SamePackageName(last.before, f, last.dst)
       /\ last.r.ok => (rs # <<>> /\ rs[1].File # last.dst
                         /\ SamePackageName(last.before, rs[1].File, last.dst))
       /\ MoveRefused(last, rs) => (~last.r.ok /\ Changed(last, fs) = {})

\* the last call renamed, or tried to rename, a package found in the
\* directory that carries its name, to another name
RenameOfOwnDir(c) ==
  /\ c.op = "rename-package"
  /\ c.oldName # c.newName
  /\ FindPkgDir(c.before, c.oldName) = <<c.oldName>>

\* the text declares the package name
DeclaresPackage(s, name) ==
  ClauseParsed(s).ok /\ ClauseParsed(s).name = Word(name)

\* the files of the project: those of the directories the tool does not
\* take for foreign code
ProjectPaths(F) ==
  {p \in RDirs \X {BaseOrder[i] : i \in 1..Len(BaseOrder)} :
     /\ ~SkipFix(p[1])
     /\ F[p[1]].exists
     /\ p[2] \in DOMAIN F[p[1]].files}

\* where the file at path p is after directory d became directory nd
PathAfter(p, d, nd) == IF p[1] = d THEN <<nd, p[2]>> ELSE p

\* in the text t, written over the text s, no use of the package name is left
\* and every use s had reads newName
UsesRenamed(s, t, oldName, newName) ==
  /\ Len(t) = Len(s)
  /\ \A i \in 1..(Len(s) - 1) :
       /\ ~(t[i] = Word(oldName) /\ t[i + 1] = Sym("."))
       /\ (s[i] = Word(oldName) /\ s[i + 1] = Sym(".")) => t[i] = Word(newName)

\* a sequence without duplicates
NoDuplicates(q) == \A i, j \in 1..Len(q) : q[i] = q[j] => i = j

\* the steps stopped at the rename of the directory: the declarations
\* rewritten before it stay rewritten, and nothing else was touched
StoppedAtRename(c, F) ==
  /\ F[c.oldName].exists
  /\ \A d \in RDirs \ {c.oldName} : F[d] = c.before[d]
  /\ F[c.oldName] # c.before[c.oldName]

\* C20: RenamePackage(old, new) of a package found in the directory named
\* old: when it succeeds the directory old is gone and the directory new is
\* there, every .go file of the package declares package new, every .go file
\* of the project that imported the old path imports the new one and uses
\* new. where it used old., and FilesChanged is not empty and lists no file
\* twice; when the rename of the directory fails the declarations already
\* rewritten stay so.
RenameMovesWholePackage ==
  RenameOfOwnDir(last) =>
    LET o == last.oldName
        n == last.newName
        B == last.before
    IN /\ last.r.ok =>
            /\ ~fs[o].exists
            /\ fs[n].exists
            /\ \A b \in DOMAIN B[o].files :
                 DeclaresPackage(B[o].files[b].text, o) =>
                   /\ b \in DOMAIN fs[n].files
                   /\ DeclaresPackage(fs[n].files[b].text, n)
            /\ \A p \in ProjectPaths(B) :
                 HasImport(B[p[1]].files[p[2]].text, o) =>
                   LET q == PathAfter(p, o, n)
                       s == B[p[1]].files[p[2]].text
                       t == fs[q[1]].files[q[2]].text
                   IN /\ HasImport(t, n)
                      /\ ~HasImport(t, o)
                      /\ UsesRenamed(s, t, o, n)
            /\ last.r.FilesChanged # <<>>
            /\ NoDuplicates(last.r.FilesChanged)
       /\ (last.r.err = "rename") => StoppedAtRename(last, fs)

\* a file the steps can rewrite: os.WriteFile on it succeeds
Writable(F, p) == ~F[p[1]].files[p[2]].ro

\* the first "package old" of the text is its package clause
ClauseComesFirst(s, oldName) ==
  DeclIdx(s, oldName) # {} /\ Min(DeclIdx(s, oldName)) = ClauseStart(s, 1)

\* the same for the files the steps can write and whose first "package old"
\* is the package clause: what RenamePackage does
RenameMovesWritablePackage ==
  RenameOfOwnDir(last) =>
    LET o == last.oldName
        n == last.newName
        B == last.before
    IN /\ last.r.ok =>
            /\ ~fs[o].exists
            /\ fs[n].exists
            /\ \A b \in DOMAIN B[o].files :
                 (/\ DeclaresPackage(B[o].files[b].text, o)
                  /\ Writable(B, <<o, b>>)
                  /\ ClauseComesFirst(B[o].files[b].text, o)) =>
                   /\ b \in DOMAIN fs[n].files
                   /\ DeclaresPackage(fs[n].files[b].text, n)
            /\ \A p \in ProjectPaths(B) :
                 (HasImport(B[p[1]].files[p[2]].text, o) /\ Writable(B, p)) =>
                   LET q == PathAfter(p, o, n)
                       s == B[p[1]].files[p[2]].text
                       t == fs[q[1]].files[q[2]].text
                   IN /\ HasImport(t, n)
                      /\ ~HasImport(t, o)
                      /\ UsesRenamed(s, t, o, n)
            /\ last.r.FilesChanged # <<>>
            /\ NoDuplicates(last.r.FilesChanged)
       /\ (last.r.err = "rename") => StoppedAtRename(last, fs)

\* the place of a file in the order of the walk
WalkIndex(file) == CHOOSE i \in 1..Len(TreeFiles) : TreeFiles[i] = file

\* the list of records is in the order of the walk and, within a file, in the
\* order of the source; the record of a struct stands before those of its fields
InWalkOrder(ms) ==
  /\ \A i, j \in 1..Len(ms) :
       i < j =>
         /\ WalkIndex(ms[i].File) <= WalkIndex(ms[j].File)
         /\ ms[i].File = ms[j].File => ms[i].Offset < ms[j].Offset
  /\ \A i, j \in 1..Len(ms) :
       (/\ ms[j].Kind = "field"
        /\ ms[i].Kind = "struct"
        /\ ms[i].File = ms[j].File
        /\ ms[i].Ident = ms[j].Parent) => i < j

\* a search repeated on the tree as it is: same name, directory and filter
SearchRepeated ==
  /\ mt.op = "find" /\ last.op = "find"
  /\ mt'.op = "find" /\ last'.op = "find"
  /\ fs' = fs
  /\ mt'.query = mt.query /\ mt'.dir = mt.dir /\ mt'.kindFilter = mt.kindFilter

\* C21: the records of a search are in the order of the walk over the files
\* and, within a file, in the order of the declarations, a struct before its
\* fields; a search repeated on an unchanged tree returns the same list, and
\* so the resolver picks the same record.
IndexOrderedAndRepeatable ==
  /\ [](Found => InWalkOrder(mt.matches))
  /\ [][SearchRepeated =>
          /\ mt'.matches = mt.matches
          /\ Resolve(mt'.matches, mt'.query) = Resolve(mt.matches, mt.query)]_vars

\* a search that was run twice and returned a struct, one of its fields and a
\* record of another file
OrderedSearchRepeated ==
  /\ Found
  /\ prev.op = "find"
  /\ prev.name = mt.query
  /\ prev.kind = mt.kindFilter
  /\ \E i, j, k \in 1..Len(mt.matches) :
       /\ mt.matches[i].Kind = "struct"
       /\ mt.matches[j].Kind = "field"
       /\ mt.matches[j].Parent = mt.matches[i].Ident
       /\ mt.matches[k].File # mt.matches[i].File

\* the last call was a resolver call, whose search mt holds
Located == mt.op = "locate" /\ last.op = "locate"

\* the records of the list ms that lie in file f
InFile(ms, f) == SelectSeq(ms, LAMBDA m : m.File = f)

\* the names and kinds of the records, in order
NamesAndKinds(ms) == [i \in 1..Len(ms) |-> <<ms[i].Name, ms[i].Kind>>]

\* the record m points at its identifier in the text the tree F holds now
PointsAtName(F, m) ==
  /\ Exists(F, m.File)
  /\ m.Offset < Len(F[m.File])
  /\ F[m.File][m.Offset + 1] \in Idents
  /\ NameChars(F[m.File][m.Offset + 1]) = m.Ident

\* the mutation c, the call right before the search, succeeded, and the
\* search asks for the name c worked on, with no kind filter
SearchAfter(c, ops) ==
  /\ Located
  /\ c.op \in ops
  /\ c.r.ok
  /\ mt.kindFilter = ""

BothWrote ==
  /\ \A p \in Procs : mt[p].pc = "done"
  /\ prev.r.ok /\ last.r.ok
  /\ prev.r.File = last.r.File

\* both invocations read the file before either wrote it
BothReadFirst ==
  /\ BothWrote
  /\ prev.before = InitFs
  /\ last.before = InitFs

\* what the request of the call c gives when it runs alone on the tree F
Alone(c, F) ==
  Prepared(<<c.op, <<c.kind, c.name>>, c.text>>, F, c.file)

\* C23: a replace, delete or insert reads the file once, computes its span
\* on exactly the bytes it read and writes the whole file back, with no lock
\* and no check of a version: when two invocations on one file both read
\* before either writes, both return success, the file ends as the result of
\* the later writer alone, and the edit of the earlier writer is not in it.
LaterWriterWins ==
  /\ \A p \in Procs :
       (mt[p].pc # "idle" /\ mt[p].c.r.ok) =>
         /\ mt[p].c.r.src = mt[p].c.before[mt[p].c.r.File]
         /\ mt[p].c.r.start <= mt[p].c.r.end
         /\ mt[p].c.r.end <= Len(mt[p].c.r.src)
  /\ last.r.ok => fs[last.r.File] = last.r.out[last.r.File]
  /\ BothReadFirst =>
       /\ fs[last.r.File] = Alone(last, InitFs).out[last.r.File]
       /\ fs = Committed(InitFs, last)

\* two invocations on one file that both read first, where the earlier
\* writer's edit changed the file and is gone: the file is not what the two
\* edits give one after the other
EarlierEditLost ==
  /\ BothReadFirst
  /\ prev.r.out[prev.r.File] # InitFs[prev.r.File]
  /\ fs[last.r.File] # prev.r.out[prev.r.File]
  /\ Alone(last, Committed(InitFs, prev)).ok
  /\ fs[last.r.File] # Alone(last, Committed(InitFs, prev)).out[last.r.File]

\* the files of the tree F that do not parse
Unparsable(F) == {f \in DOMAIN F : ~ParseFile(F[f]).ok}

\* the tree F without the files of the set S
Without(F, S) == [f \in DOMAIN F \ S |-> F[f]]

\* C24: a file that does not parse gives no record and does not end the
\* walk: the search returns the records, in their order, that it returns on
\* the tree without the files that do not parse.
UnparsableFilesAreSkipped ==
  Found =>
    /\ \A i \in 1..Len(mt.matches) : mt.matches[i].File \notin Unparsable(fs)
    /\ mt.matches = searchSymbolsIn(Without(fs, Unparsable(fs)), mt.dir,
                                    mt.query, mt.kindFilter)

\* a search that walked past a file that does not parse and returned a
\* record of a file met after it
RecordAfterUnparsableFile ==
  /\ Found
  /\ \E f \in Unparsable(fs), i \in 1..Len(mt.matches) :
       /\ Reached(fs, mt.dir, f)
       /\ WalkIndex(f) < WalkIndex(mt.matches[i].File)

\* the move c got through its read step and its delete step
ReadAndDeleted(c) == c.op = "move" /\ c.r.ok /\ Len(c.r.trace) >= 2

\* the span the delete step removed is the span the read step returned, with
\* the line breaks that follow it
SameSpan(c) ==
  LET rd  == c.r.trace[1]
      del == c.r.trace[2]
      src == c.before[rd.file]
  IN /\ rd.file = del.file
     /\ rd.start = del.start
     /\ rd.end <= del.end
     /\ \A k \in (rd.end + 1)..del.end : src[k] \in LineBreaks

\* the declarations of the source file of the move c that declare its name
DeclaringInSource(c) ==
  Declaring(c.kind, DeclsOf(c.before[c.r.trace[1].file]), c.name)

\* C25: a move works on one declaration: the declaration its read step
\* returns, whose text goes to the destination, is the declaration its delete
\* step removes from the source, also when the name is declared more than
\* once in the source file.
MoveReadsWhatItDeletes ==
  ReadAndDeleted(last) => SameSpan(last)

\* the same for functions, and for a name declared once in the source file
MoveReadsWhatItDeletesOnce ==
  (/\ ReadAndDeleted(last)
   /\ last.kind = "func" \/ Cardinality(DeclaringInSource(last)) = 1) =>
    SameSpan(last)

\* the mutator variants
Variants == {"func", "type", "varconst"}

\* the generic replace or delete c names a file that parses and holds a
\* function, type, variable or constant named as c asks
NamesDeclOfFile(c) ==
  /\ Generic(c)
  /\ c.op \in {"replace", "delete"}
  /\ c.file # ""
  /\ Exists(c.before, c.file)
  /\ ParseFile(c.before[c.file]).ok
  /\ \E v \in Variants : DeclaredIn(v, c.before[c.file], c.name)

\* the call c succeeded on a declaration of its file that carries its name
ActedOnDeclOfFile(c) ==
  /\ c.r.ok
  /\ c.r.File = c.file
  /\ \E v \in Variants, i \in 1..Len(DeclsOf(c.before[c.file])) :
       /\ NamedBy(v, DeclsOf(c.before[c.file])[i], c.name)
       /\ DeclsOf(c.before[c.file])[i].start = c.r.start

\* C26: a generic Replace or Delete given a file works on the declaration
\* named name in that file: the variant is that of the declaration the file
\* holds, so the call succeeds whenever the file holds a function, type,
\* variable or constant of that name, whatever declarations of that name, or
\* matching it, the rest of the project holds.
GenericActsOnGivenFile ==
  NamesDeclOfFile(last) => ActedOnDeclOfFile(last)

\* the same when the record the resolver returns for the project is of a
\* kind under which the given file declares the name: what Replace and
\* Delete do
GenericActsWhenKindsAgree ==
  LET rs == Resolved(last)
  IN (/\ NamesDeclOfFile(last)
      /\ rs # <<>>
      /\ Variant(rs[1].Kind) \in Variants
      /\ DeclaredIn(Variant(rs[1].Kind), last.before[last.file], last.name)) =>
       ActedOnDeclOfFile(last)

\* the units of the source file that the delete step of the move c removed
RemovedSpan(c) ==
  SubSeq(c.before[c.r.trace[2].file], c.r.trace[2].start + 1, c.r.trace[2].end)

\* what the move c appended is, white space aside, what it removed: the
\* buffer written to the destination is the destination, as it is after the
\* delete step, and the span
MovedTextIsRemovedSpan(c) ==
  /\ Strip(c.r.code) = Strip(RemovedSpan(c))
  /\ Strip(c.r.buf) = Strip(c.r.trace[2].fs[c.dst]) \o Strip(RemovedSpan(c))

\* C27: a move transfers the content of the declaration and nothing else:
\* the text appended to the destination is, up to formatting white space,
\* the span removed from the source; no comment inside the span is lost and
\* no doc comment that stays in the source is copied.
MoveTransfersRemovedSpan ==
  ReadAndDeleted(last) => MovedTextIsRemovedSpan(last)

\* the same for a declaration that holds no comment, has no doc comment
\* before it, and is the only one of its name in the source file (or a
\* function): what the move does
MoveTransfersPlainSpan ==
  (/\ ReadAndDeleted(last)
   /\ last.kind = "func" \/ Cardinality(DeclaringInSource(last)) = 1
   /\ SelectSeq(RemovedSpan(last), NotComment) = RemovedSpan(last)
   /\ DocOf(last.before[last.r.trace[2].file], last.r.trace[2].start) = <<>>) =>
    MovedTextIsRemovedSpan(last)

\* the replace or delete c computed a span: it found its declaration
SpanComputed(c) ==
  /\ c.op \in {"replace", "delete"}
  /\ c.r.File # ""
  /\ c.r.src # <<>>

\* C28: in every replace and delete the offsets satisfy
\* 0 <= start <= end <= len(src) for the bytes src the call read; the end of
\* a delete, moved over the line breaks after the declaration, stays within
\* the file; so the splice takes its two parts from inside the content.
SpanWithinFile ==
  SpanComputed(last) =>
    LET src   == last.r.src
        start == last.r.start
        end   == last.r.end
    IN /\ src = last.before[last.r.File]
       /\ 0 <= start /\ start <= end /\ end <= Len(src)
       /\ \E i \in 1..Len(DeclsOf(src)) :
            /\ DeclsOf(src)[i].start = start
            /\ DeclsOf(src)[i].end <= end
            /\ \A k \in (DeclsOf(src)[i].end + 1)..end : src[k] \in LineBreaks
       /\ Len(last.r.buf) = start + Len(last.text) + (Len(src) - end)

\* a delete of the last declaration of a file, whose end moved over the
\* line breaks up to the end of the file
DeleteUpToEndOfFile ==
  /\ SpanComputed(last)
  /\ last.op = "delete"
  /\ last.r.ok
  /\ last.r.end = Len(last.r.src)
  /\ last.r.src[last.r.end] \in LineBreaks

\* the generic read c, and the records of the index it had to choose from
GenericRead(c) == c.op = "read" /\ c.kind = "symbol"

Candidates(c) ==
  InGivenFile(searchSymbols(c.before, c.name, ""), c.file)

\* C29: a generic Read signals not-found as an error whenever it has nothing
\* to return: a call that returns success returns at least one declaration
\* (Count > 0), also when every record the index yields matches the name only
\* loosely, or when every per-kind read fails.
ReadNeverSucceedsEmpty ==
  (GenericRead(last) /\ last.r.ok) => last.r.Count > 0

\* what Read does: it fails with not-found exactly when the index, cut down
\* to the given file, yields no record; it returns a declaration for every
\* record that carries the name and none for the others
ReadFailsOnlyWithoutRecords ==
  GenericRead(last) =>
    LET ms == Candidates(last)
    IN /\ (ms = <<>>) <=> (~last.r.ok /\ last.r.err = "notfound")
       /\ (ms # <<>>) =>
            /\ last.r.ok
            /\ last.r.Count =
                 Cardinality({i \in 1..Len(ms) : CarriesName(ms[i], last.name)})
       /\ last.r.out = last.before

\* a generic read that succeeded with declarations to return
ReadReturnsDeclarations ==
  GenericRead(last) /\ last.r.ok /\ last.r.Count > 1

\* the call c of the line editor on a file that exists
LineEdit(c) ==
  /\ c.op \in {"readlines", "replacelines", "deletelines", "insertlines"}
  /\ Exists(c.before, c.file)

\* the lines of the file before the call c, and after it
LinesBefore(c) == Split(c.before[c.file])
LinesAfter(c)  == Split(c.r.out[c.file])

\* the first and the last line the call c asks for, clamped as the claim says
FirstAsked(c) == IF c.start < 1 THEN 1 ELSE c.start
LastAsked(c) ==
  IF c.end < 0 \/ c.end > Len(LinesBefore(c)) THEN Len(LinesBefore(c)) ELSE c.end

\* the lines before line number from and the lines after line number to are,
\* in this order, the first and the last lines of the file after the call c
OutsideKept(c, from, to) ==
  LET old == LinesBefore(c)
      new == LinesAfter(c)
      behind == Len(old) - to
  IN /\ \A i \in 1..(from - 1) : i <= Len(new) /\ new[i] = old[i]
     /\ \A j \in 1..behind :
          /\ Len(new) - behind + j >= 1
          /\ new[Len(new) - behind + j] = old[to + j]
     /\ (from - 1) + behind > 0 => Len(new) >= (from - 1) + behind

\* the replace c writes back what the read before it returned for the same
\* lines of the same file
WritesBackRead(c, rd) ==
  /\ c.op = "replacelines"
  /\ rd.op = "readlines"
  /\ rd.r.ok
  /\ rd.r.out = c.before
  /\ rd.file = c.file /\ rd.start = c.start /\ rd.end = c.end
  /\ c.text = rd.r.Lines

\* C30: for any file and any integers start and end, ReadLines, ReplaceLines,
\* DeleteLines and InsertLines never index out of range: a start below 1 is
\* taken as 1, an end below 0 or past the last line as the last line, and a
\* start past the end after that is an error that leaves the file as it was;
\* the lines outside [start, end] are kept in order; and replacing lines with
\* what ReadLines returned for them leaves the file byte for byte the same.
LineEditorClampsAndPreserves ==
  LineEdit(last) =>
    LET total == Len(LinesBefore(last))
        s == FirstAsked(last)
        e == LastAsked(last)
    IN /\ ~last.r.panic
       /\ last.op # "insertlines" =>
            /\ (s > e) <=> (~last.r.ok /\ last.r.err = "range")
            /\ last.r.ok => last.r.Start = s /\ last.r.End = e
            /\ last.r.ok => 1 <= s /\ s <= e /\ e <= total
       /\ ~last.r.ok => last.r.out = last.before
       /\ last.op = "readlines" /\ last.r.ok =>
            /\ last.r.out = last.before
            /\ Split(last.r.Lines) = SubSeq(LinesBefore(last), s, e)
            /\ last.r.Count = e - s + 1
       /\ last.op \in {"replacelines", "deletelines"} /\ last.r.ok =>
            OutsideKept(last, s, e)
       /\ last.op = "insertlines" =>
            /\ last.r.ok
            /\ 0 <= last.r.Start /\ last.r.Start <= total
            /\ OutsideKept(last, last.r.Start + 1, last.r.Start)
       /\ WritesBackRead(last, prev) =>
            last.r.ok /\ last.r.out[last.file] = last.before[last.file]

\* lines read with an end past the last line were written back with the
\* same arguments, in a file of several lines whose last line is empty
ClampedLinesWrittenBack ==
  /\ LineEdit(last)
  /\ WritesBackRead(last, prev)
  /\ last.end > Len(LinesBefore(last))
  /\ last.start > 1
  /\ Len(LinesBefore(last)) >= 3
  /\ LinesBefore(last)[Len(LinesBefore(last))] = <<>>


====
